---- MODULE Spec2Model ----
(***************************************************************************)
(* Transactional catalog versioning of src/src/catalog/catalog_set.cpp:    *)
(* the name directory (CatalogEntryMap), the per-name version chains and   *)
(* the CatalogSet operations on them, driven by concurrent transactions.   *)
(***************************************************************************)
EXTENDS Integers, Sequences, FiniteSets, TLC

(***************************************************************************)
(* Bounds of the model.                                                    *)
(***************************************************************************)
\* number of transactions that are ever started
MaxTxn == 2
\* versions one transaction may publish (the length of its undo log)
MaxUndo == 3
\* catalog entries that may be alive at the same time
MaxNodes == 5
\* names that may hold an entry committed before the run starts (the first
\* MaxInitial names, or fewer)
MaxInitial == 1
\* the same three bounds for a set without a default generator (SpecNoDefaults)
MaxUndoPlain == 4
MaxNodesPlain == 6
MaxInitialPlain == 2
\* steps that are followed after a step without effect (a step that changed
\* nothing but the record of the last step)
MaxIdle == 1

(***************************************************************************)
(* Program constants.                                                      *)
(***************************************************************************)
\* the threshold between committed timestamps and transaction-local ids
\* (catalog_set.cpp:389); the engine's value is 2^62, scaled here so that it
\* stays above every committed timestamp the bounded clock can produce.
TRANSACTION_ID_START == 100

DEFAULT_SCHEMA == "main"
Names == {"a", "b"}
\* the names the default generator of the set can materialize
DefaultNames == {"b"}
\* the commit timestamp of an entry committed before the run starts: below
\* every start_time of the run
InitialTimestamp == 1

Txns == 1..MaxTxn
NoNode == 0
\* the arena of catalog entries: two slots for every version a transaction
\* may publish (the version and the dummy root it may need) and one for the
\* default entry of every name
NameIndex(name) == IF name = "a" THEN 1 ELSE 2
SlotsPerTxn == 2 * (IF MaxUndoPlain > MaxUndo THEN MaxUndoPlain ELSE MaxUndo)
NodeIds == 1..(SlotsPerTxn * MaxTxn + 2 * Cardinality(Names))

\* the catalog this set belongs to: an ordinary (non-system, non-temporary)
\* DuckCatalog
IsSystemCatalog == FALSE
IsTemporaryCatalog == FALSE

VARIABLES
    entries,   \* CatalogEntryMap::entries: name -> head of the chain (NoNode: no chain)
    heap,      \* the catalog entries: id -> node (live or free)
    created_all_entries, \* DefaultGenerator::created_all_entries
    hasDefaults, \* whether the set was constructed with a default generator
    txn,       \* per transaction: status, start_time, commit id, undo log
    clock,     \* the transaction manager's timestamp counter
    writeLock, \* holder of the catalog-wide write lock across steps (0: free)
    catalog_lock, \* CatalogSet::catalog_lock: holder of the set lock across steps (0: free)
    th,        \* per session: where its current operation stands
    last,      \* the step that was just taken and its outcome
    committed, \* per name: the entry the latest committed change left (NoNode: none)
    limits,    \* the bounds of the run
    idle       \* the steps without effect taken since the last step with an effect

vars == <<entries, heap, created_all_entries, hasDefaults, txn, clock, writeLock, catalog_lock,
          th, last, committed, limits, idle>>

(***************************************************************************)
(* Catalog entries (version nodes).                                        *)
(***************************************************************************)
FreeNode == [live |-> FALSE, name |-> "", type |-> "FREE", deleted |-> FALSE,
             internal |-> FALSE, timestamp |-> 0, child |-> NoNode, parent |-> NoNode]

NewNode(name, type, deleted, internal, timestamp) ==
    [live |-> TRUE, name |-> name, type |-> type, deleted |-> deleted,
     internal |-> internal, timestamp |-> timestamp, child |-> NoNode, parent |-> NoNode]

\* the structure the map operations work on
Cat == [entries |-> entries, heap |-> heap, fault |-> ""]

HasChild(c, e) == c.heap[e].child # NoNode
HasParent(c, e) == c.heap[e].parent # NoNode

\* destruction of a unique_ptr<CatalogEntry>: the node and the chain it owns
RECURSIVE Destroy(_, _)
Destroy(c, e) ==
    IF e = NoNode \/ ~c.heap[e].live THEN c
    ELSE Destroy([c EXCEPT !.heap[e] = FreeNode], c.heap[e].child)

\* InCatalogEntry::SetChild: the previous child is destroyed, the new one
\* gets this node as its parent
SetChild(c, p, ch) ==
    LET old == c.heap[p].child
        c1 == IF old # NoNode /\ old # ch THEN Destroy(c, old) ELSE c
        c2 == [c1 EXCEPT !.heap[p].child = ch]
    IN IF ch = NoNode THEN c2 ELSE [c2 EXCEPT !.heap[ch].parent = p]

\* InCatalogEntry::TakeChild: the child is detached and loses its parent
TakeChild(c, e) ==
    LET ch == c.heap[e].child
        c1 == [c EXCEPT !.heap[e].child = NoNode]
    IN IF ch = NoNode THEN c1 ELSE [c1 EXCEPT !.heap[ch].parent = NoNode]

(***************************************************************************)
(* CatalogEntryMap.                                                        *)
(***************************************************************************)
MapGetEntry(c, name) == c.entries[name]

\* AddEntry: the node `e` (already in the heap, unlinked) starts a new chain
AddEntry(c, e) ==
    LET name == c.heap[e].name IN
    IF c.fault # "" THEN c
    ELSE IF c.entries[name] # NoNode
         THEN [Destroy(c, e) EXCEPT !.fault = "InternalException"]
         ELSE [c EXCEPT !.entries[name] = e]

\* UpdateEntry: the node `e` becomes the head, the old head its child
UpdateEntry(c, e) ==
    LET name == c.heap[e].name
        existing == c.entries[name] IN
    IF c.fault # "" THEN c
    ELSE IF existing = NoNode
         THEN [Destroy(c, e) EXCEPT !.fault = "InternalException"]
         ELSE SetChild([c EXCEPT !.entries[name] = e], e, existing)

\* faulty variant: an entry inside the chain is not replaced by its child
MapDropEntryLeaks(c, e) ==
    LET name == c.heap[e].name
        chain == c.entries[name]
        child == c.heap[e].child
        c1 == TakeChild(c, e) IN
    IF c.fault # "" THEN c
    ELSE IF chain = NoNode THEN [c EXCEPT !.fault = "InternalException"]
    ELSE IF ~HasParent(c, e)
         THEN [Destroy(c1, chain) EXCEPT !.entries[name] = child]
         ELSE c1

\* DropEntry: unlink `e` from its chain
MapDropEntry(c, e) ==
    LET name == c.heap[e].name
        chain == c.entries[name]
        child == c.heap[e].child
        c1 == TakeChild(c, e) IN
    IF c.fault # "" THEN c
    ELSE IF chain = NoNode THEN [c EXCEPT !.fault = "InternalException"]
    ELSE IF ~HasParent(c, e)
         THEN \* top of the chain: it->second.reset(), then the child or erase
              [Destroy(c1, chain) EXCEPT !.entries[name] = child]
         ELSE SetChild(c1, c.heap[e].parent, child)

(***************************************************************************)
(* Timestamps: conflict and visibility.                                    *)
(***************************************************************************)
\* the CatalogTransaction of session t
Tx(t) == [transaction_id |-> TRANSACTION_ID_START + t, start_time |-> txn[t].start_time,
          transaction |-> t]

\* faulty variant: a version committed after the snapshot started is not
\* taken for a conflict
HasConflictLocalOnly(transaction, timestamp) ==
    timestamp >= TRANSACTION_ID_START /\ timestamp # transaction.transaction_id

\* faulty variant: the uncommitted version of another transaction is not
\* taken for a conflict
HasConflictCommittedOnly(transaction, timestamp) ==
    timestamp < TRANSACTION_ID_START /\ timestamp > transaction.start_time

HasConflict(transaction, timestamp) ==
    \/ (timestamp >= TRANSACTION_ID_START /\ timestamp # transaction.transaction_id)
    \/ (timestamp < TRANSACTION_ID_START /\ timestamp > transaction.start_time)

\* faulty variant: only the versions the transaction wrote itself are used
UseTimestampOwnOnly(transaction, timestamp) ==
    timestamp = transaction.transaction_id

\* faulty variant: the versions the transaction wrote itself are not used
UseTimestampCommittedOnly(transaction, timestamp) ==
    timestamp < transaction.start_time

UseTimestamp(transaction, timestamp) ==
    \/ timestamp = transaction.transaction_id
    \/ timestamp < transaction.start_time

\* faulty variant: the head of the chain is taken whoever wrote it
GetEntryForTransactionHead(c, transaction, current) == current

RECURSIVE GetEntryForTransaction(_, _, _)
GetEntryForTransaction(c, transaction, current) ==
    IF HasChild(c, current) /\ ~UseTimestamp(transaction, c.heap[current].timestamp)
    THEN GetEntryForTransaction(c, transaction, c.heap[current].child)
    ELSE current

\* faulty variant: the head of the chain is taken, committed or not
GetCommittedEntryHead(c, current) == current

RECURSIVE GetCommittedEntry(_, _)
GetCommittedEntry(c, current) ==
    IF HasChild(c, current) /\ ~(c.heap[current].timestamp < TRANSACTION_ID_START)
    THEN GetCommittedEntry(c, c.heap[current].child)
    ELSE current

\* faulty variant: the timestamp of the head is not checked
GetEntryInternalOfNoConflict(c, transaction, e) ==
    IF c.heap[e].deleted THEN [res |-> "ok", entry |-> NoNode]
    ELSE [res |-> "ok", entry |-> e]

\* GetEntryInternal(transaction, entry): "conflict", NoNode (deleted) or the entry
GetEntryInternalOf(c, transaction, e) ==
    IF HasConflict(transaction, c.heap[e].timestamp) THEN [res |-> "TransactionException", entry |-> NoNode]
    ELSE IF c.heap[e].deleted THEN [res |-> "ok", entry |-> NoNode]
    ELSE [res |-> "ok", entry |-> e]

\* faulty variant: a name without a chain is an error
GetEntryInternalThrows(c, transaction, name) ==
    IF MapGetEntry(c, name) = NoNode THEN [res |-> "CatalogException", entry |-> NoNode]
    ELSE GetEntryInternalOf(c, transaction, MapGetEntry(c, name))

\* GetEntryInternal(transaction, name)
GetEntryInternal(c, transaction, name) ==
    IF MapGetEntry(c, name) = NoNode THEN [res |-> "ok", entry |-> NoNode]
    ELSE GetEntryInternalOf(c, transaction, MapGetEntry(c, name))

\* GetEntry on a name that has a chain: the version the snapshot resolves to,
\* NoNode when that version is a tombstone
GetEntryOfChain(c, transaction, name) ==
    LET current == GetEntryForTransaction(c, transaction, MapGetEntry(c, name))
    IN IF c.heap[current].deleted THEN NoNode ELSE current

(***************************************************************************)
(* Sessions, transactions and the bookkeeping shared by the operations.    *)
(***************************************************************************)
IdleTh == [pc |-> "idle", op |-> "none", name |-> "", dest |-> "", entry |-> NoNode,
           internal |-> FALSE, calls |-> <<>>, idx |-> 0]

\* the versions of a chain, newest first
RECURSIVE ChainFrom(_)
ChainFrom(e) == IF e = NoNode THEN <<>> ELSE <<e>> \o ChainFrom(heap[e].child)

Chain(name) == ChainFrom(entries[name])

\* history of a transaction: per name, the chain it found when it first
\* superseded a version of the name
NoOrigin == [name \in Names |-> [touched |-> FALSE, chain |-> <<>>]]

NoTxn == [status |-> "none", start_time |-> 0, commit_id |-> 0, undo |-> <<>>,
          origin |-> NoOrigin]

Range(s) == {s[i] : i \in 1..Len(s)}

\* make_uniq<...>: where the next version a transaction publishes, the dummy
\* root it may need and the default entry of a name are placed in the arena
VersionSlot(t) == SlotsPerTxn * (t - 1) + 2 * Len(txn[t].undo) + 1
DummySlot(t) == VersionSlot(t) + 1
DefaultSlot(name) == SlotsPerTxn * MaxTxn + NameIndex(name)
InitialSlot(name) == SlotsPerTxn * MaxTxn + Cardinality(Names) + NameIndex(name)
Place(c, e, node) == [c EXCEPT !.heap[e] = node]

\* the undo log of t has room for n more entries, and the arena for the
\* versions and the dummy root that come with them
CanPush(t, n) ==
    /\ Len(txn[t].undo) + n <= limits.undo
    /\ Cardinality({i \in NodeIds : heap[i].live}) + n + 1 <= limits.nodes

Active(t) == txn[t].status = "active"
Ready(t) == Active(t) /\ th[t].pc = "idle"

\* the history once t pushes the version e, the head it has superseded: the
\* chain is remembered when e is the first version of somebody else that t
\* supersedes under the name (a dummy root that starts a chain is not yet in
\* the heap and supersedes nothing)
Remember(t, origin, e) ==
    IF /\ heap[e].live
       /\ heap[e].timestamp # TRANSACTION_ID_START + t
       /\ ~origin[heap[e].name].touched
    THEN [origin EXCEPT ![heap[e].name] = [touched |-> TRUE, chain |-> ChainFrom(e)]]
    ELSE origin

\* DuckTransaction::PushCatalogEntry
PushCatalogEntry(t, e) ==
    [txn EXCEPT ![t].undo = Append(@, e), ![t].origin = Remember(t, @, e)]

\* the record of a step: the operation, its caller and argument, what it
\* returned or raised, the DependencyManager calls it made, for a scan the
\* entries the callback was invoked with, for SimilarEntry the name it
\* returned and, for a rollback and a cleanup, the name and type of the
\* entries Undo and CleanupEntry were called with, in the order of the calls
Outcome(op, t, name, res, entry, calls) ==
    [op |-> op, t |-> t, name |-> name, res |-> res, entry |-> entry, calls |-> calls,
     visited |-> {}, similar |-> "", undone |-> <<>>]

\* the operation of session t returns (or raises) `res`
Return(t, op, name, res, entry, calls) ==
    /\ th' = [th EXCEPT ![t] = IdleTh]
    /\ last' = Outcome(op, t, name, res, entry, calls)
    /\ UNCHANGED <<committed, limits, catalog_lock>>

\* the operation of session t goes on at `pc`
Goto(t, rec) ==
    /\ th' = [th EXCEPT ![t] = rec]
    /\ last' = Outcome(rec.op, t, rec.name, "pending", NoNode, rec.calls)
    /\ UNCHANGED <<committed, limits, catalog_lock>>

Store(c) == entries' = c.entries /\ heap' = c.heap

\* whether CreateDefaultEntry gets as far as asking the generator
DefaultsPending == hasDefaults /\ ~created_all_entries

\* DefaultGenerator::CreateDefaultEntry: an entry for the names it knows
GeneratorHas(name) == name \in DefaultNames

(***************************************************************************)
(* CatalogSet::CreateEntryInternal: a default entry starts the chain.      *)
(***************************************************************************)
\* faulty variant: the entry is added whether or not the name has a chain
CreateEntryInternalUnchecked(c, name) ==
    LET e == DefaultSlot(name)
    IN [c |-> AddEntry(Place(c, e, NewNode(name, "TABLE_ENTRY", FALSE, TRUE, 0)), e),
        entry |-> e]

CreateEntryInternal(c, name) ==
    IF MapGetEntry(c, name) # NoNode THEN [c |-> c, entry |-> NoNode]
    ELSE LET e == DefaultSlot(name)
             c1 == Place(c, e, NewNode(name, "TABLE_ENTRY", FALSE, TRUE, 0))
         IN [c |-> AddEntry(c1, e), entry |-> e]

(***************************************************************************)
(* CatalogSet::CreateEntry.                                                *)
(***************************************************************************)
\* lines 93-111: "" when the candidate may be created in this catalog
CreateValidation(name, internal, temporary) ==
    IF internal /\ ~IsSystemCatalog /\ name # DEFAULT_SCHEMA THEN "InternalException"
    ELSE IF ~internal /\ ~temporary /\ IsSystemCatalog THEN "InternalException"
    ELSE IF ~internal /\ temporary /\ ~IsTemporaryCatalog THEN "InternalException"
    ELSE IF ~internal /\ ~temporary /\ IsTemporaryCatalog /\ name # DEFAULT_SCHEMA
         THEN "InvalidInputException"
    ELSE ""

\* faulty variant: the new head itself goes to the undo log
PublishPushesHead(c, name, type, deleted, internal, transaction) ==
    LET e == VersionSlot(transaction.transaction)
        c1 == UpdateEntry(Place(c, e, NewNode(name, type, deleted, internal,
                                                transaction.transaction_id)), e)
    IN [c |-> c1, entry |-> e, child |-> e]

\* lines 161-168: the candidate becomes the head; the result names the
\* superseded version that goes to the undo log
Publish(c, name, type, deleted, internal, transaction) ==
    LET e == VersionSlot(transaction.transaction)
        c1 == UpdateEntry(Place(c, e, NewNode(name, type, deleted, internal,
                                                transaction.transaction_id)), e)
    IN [c |-> c1, entry |-> e, child |-> c1.heap[e].child]

\* lines 137-145: the dummy deleted root of a new chain
AddDummy(c, transaction, name) ==
    LET e == DummySlot(transaction.transaction)
    IN AddEntry(Place(c, e, NewNode(name, "INVALID", TRUE, FALSE, 0)), e)

\* faulty variant: the timestamp of the head is not checked
CreateCheckNoConflict(c, transaction, name) ==
    IF ~c.heap[MapGetEntry(c, name)].deleted THEN "false" ELSE "true"

\* faulty variant: a live head is published over
CreateCheckOverwrites(c, transaction, name) ==
    IF HasConflict(transaction, c.heap[MapGetEntry(c, name)].timestamp)
    THEN "TransactionException"
    ELSE "true"

\* faulty variant: a chain that ends in a tombstone is not revived
CreateCheckNoRevival(c, transaction, name) ==
    IF HasConflict(transaction, c.heap[MapGetEntry(c, name)].timestamp)
    THEN "TransactionException"
    ELSE "false"

\* lines 146-159: the checks against the head of an existing chain
CreateCheck(c, transaction, name) ==
    LET current == MapGetEntry(c, name) IN
    IF HasConflict(transaction, c.heap[current].timestamp) THEN "TransactionException"
    ELSE IF ~c.heap[current].deleted THEN "false"
    ELSE "true"

\* lines 161-168 and what CreateEntry returns: [c, res, entry, child]
CreatePublish(c, transaction, name, type, internal) ==
    LET p == Publish(c, name, type, FALSE, internal, transaction)
    IN IF p.c.fault # "" THEN [c |-> p.c, res |-> p.c.fault, entry |-> NoNode, child |-> NoNode]
       ELSE [c |-> p.c, res |-> "true", entry |-> p.entry, child |-> p.child]

\* lines 137-168, the branch of a name that had no chain at line 127
CreateOnNewChain(c, transaction, name, type, internal) ==
    CreatePublish(AddDummy(c, transaction, name), transaction, name, type, internal)

\* lines 127-168 when no default generator is asked: [c, res, entry, child]
CreateLocked(c, transaction, name, type, internal) ==
    LET check == CreateCheck(c, transaction, name) IN
    IF MapGetEntry(c, name) = NoNode THEN CreateOnNewChain(c, transaction, name, type, internal)
    ELSE IF check # "true" THEN [c |-> c, res |-> check, entry |-> NoNode, child |-> NoNode]
    ELSE CreatePublish(c, transaction, name, type, internal)

\* whether CreateEntry goes on to publish the candidate
WouldPublish(c, transaction, name) ==
    MapGetEntry(c, name) = NoNode \/ CreateCheck(c, transaction, name) = "true"

\* the call up to the first point where the set lock is given up
CreateEntry(t, name, internal, temporary) ==
    LET bad == CreateValidation(name, internal, temporary)
        calls == <<"AddObject">>
        r == CreateLocked(Cat, Tx(t), name, "TABLE_ENTRY", internal)
    IN
    /\ Ready(t)
    /\ IF bad # ""
       THEN /\ Return(t, "CreateEntry", name, bad, NoNode, <<>>)
            /\ UNCHANGED <<entries, heap, created_all_entries, hasDefaults, txn, clock, writeLock>>
       ELSE /\ writeLock = 0
            /\ WouldPublish(Cat, Tx(t), name) => CanPush(t, 1)
            /\ IF MapGetEntry(Cat, name) = NoNode /\ DefaultsPending
               THEN \* CreateDefaultEntry unlocks the set and asks the generator
                    /\ writeLock' = t
                    /\ Goto(t, [IdleTh EXCEPT !.pc = "create_default", !.op = "CreateEntry",
                                              !.name = name, !.internal = internal,
                                              !.calls = calls])
                    /\ UNCHANGED <<entries, heap, created_all_entries, hasDefaults, txn, clock>>
               ELSE /\ Store(r.c)
                    /\ txn' = IF r.res = "true" THEN PushCatalogEntry(t, r.child) ELSE txn
                    /\ Return(t, "CreateEntry", name, r.res, r.entry, calls)
                    /\ UNCHANGED <<created_all_entries, hasDefaults, clock, writeLock>>

\* CreateDefaultEntry, lines 472-488, inside CreateEntry (the write lock is
\* held), and the rest of CreateEntry: [c, res, entry, child]
CreateAfterGenerator(c, transaction, name, type, internal) ==
    LET d == CreateEntryInternal(c, name)
        \* the generator has the name: either the default entry is created now,
        \* or somebody else created the chain and GetEntry resolves it
        found == IF d.entry # NoNode THEN d.entry ELSE GetEntryOfChain(d.c, transaction, name)
    IN IF ~GeneratorHas(name) THEN CreateOnNewChain(c, transaction, name, type, internal)
       ELSE IF d.c.fault # ""
       THEN [c |-> c, res |-> d.c.fault, entry |-> NoNode, child |-> NoNode]
       ELSE IF found # NoNode
       THEN [c |-> d.c, res |-> "false", entry |-> NoNode, child |-> NoNode]
       ELSE CreateOnNewChain(d.c, transaction, name, type, internal)

CreateEntryDefault(t) ==
    LET name == th[t].name
        r == CreateAfterGenerator(Cat, Tx(t), name, "TABLE_ENTRY", th[t].internal)
    IN
    /\ th[t].pc = "create_default" /\ th[t].op = "CreateEntry"
    /\ writeLock' = 0
    /\ Store(r.c)
    /\ txn' = IF r.res = "true" THEN PushCatalogEntry(t, r.child) ELSE txn
    /\ Return(t, "CreateEntry", name, r.res, r.entry, th[t].calls)
    /\ UNCHANGED <<created_all_entries, hasDefaults, clock>>

(***************************************************************************)
(* CatalogSet::GetEntry.                                                   *)
(***************************************************************************)
\* lines 474-488 for a caller that holds no write lock, once the generator
\* has answered: the catalog it leaves and the entry it returns; "retry" when
\* somebody else created the chain first and the set lock is given up for
\* another GetEntry (lines 487-488)
GetEntryAfterGenerator(c, transaction, name) ==
    LET d == CreateEntryInternal(c, name) IN
    IF ~GeneratorHas(name) THEN [c |-> c, res |-> "ok", entry |-> NoNode]
    ELSE IF d.c.fault # "" THEN [c |-> c, res |-> d.c.fault, entry |-> NoNode]
    ELSE IF d.entry # NoNode THEN [c |-> d.c, res |-> "ok", entry |-> d.entry]
    ELSE [c |-> c, res |-> "retry", entry |-> NoNode]

\* lines 492-509, under the set lock
GetEntryLocked(t, name) ==
    /\ IF MapGetEntry(Cat, name) # NoNode
       THEN Return(t, "GetEntry", name, "ok", GetEntryOfChain(Cat, Tx(t), name), <<>>)
       ELSE IF ~DefaultsPending
       THEN Return(t, "GetEntry", name, "ok", NoNode, <<>>)
       ELSE Goto(t, [IdleTh EXCEPT !.pc = "get_default", !.op = "GetEntry", !.name = name])
    /\ UNCHANGED <<entries, heap, created_all_entries, hasDefaults, txn, clock, writeLock>>

GetEntry(t, name) == Ready(t) /\ GetEntryLocked(t, name)

GetEntryDefault(t) ==
    LET g == GetEntryAfterGenerator(Cat, Tx(t), th[t].name) IN
    /\ th[t].pc = "get_default" /\ th[t].op = "GetEntry"
    /\ Store(g.c)
    /\ IF g.res = "retry"
       THEN Goto(t, [th[t] EXCEPT !.pc = "get_retry"])
       ELSE Return(t, "GetEntry", th[t].name, g.res, g.entry, <<>>)
    /\ UNCHANGED <<created_all_entries, hasDefaults, txn, clock, writeLock>>

\* line 488: the GetEntry that CreateDefaultEntry falls back on
GetEntryRetry(t) ==
    /\ th[t].pc = "get_retry" /\ th[t].op = "GetEntry"
    /\ GetEntryLocked(t, th[t].name)

\* what GetEntry(transaction, name) returns when it is called now and nobody
\* steps in while the generator is asked (lines 491-510 and 458-489)
GetEntryNow(transaction, name) ==
    IF MapGetEntry(Cat, name) # NoNode THEN GetEntryOfChain(Cat, transaction, name)
    ELSE IF DefaultsPending /\ GeneratorHas(name) THEN DefaultSlot(name)
    ELSE NoNode

(***************************************************************************)
(* CatalogSet::DropEntry.                                                  *)
(***************************************************************************)
\* faulty variant: internal objects are not looked for
DropDependenciesUnprotected(c, entry, allow_drop_internal, depOk) ==
    IF entry = NoNode THEN "false"
    ELSE IF ~depOk THEN "DependencyException"
    ELSE "go"

\* DropDependencies, lines 313-323, once GetEntry has answered: the outcome,
\* "go" when the drop goes on to DropEntryInternal
DropDependencies(c, entry, allow_drop_internal, depOk) ==
    IF entry = NoNode THEN "false"
    ELSE IF c.heap[entry].internal /\ ~allow_drop_internal THEN "CatalogException(internal)"
    ELSE IF ~depOk THEN "DependencyException"
    ELSE "go"

\* the DependencyManager calls DropDependencies made on the way
DropCalls(res) == IF res \in {"go", "DependencyException"} THEN <<"DropObject">> ELSE <<>>

\* faulty variant: the tombstone is not marked deleted
DropEntryInternalLive(c, transaction, name, allow_drop_internal, tombstone_type) ==
    LET g == GetEntryInternal(c, transaction, name)
        p == Publish(c, name, tombstone_type, FALSE, FALSE, transaction)
        none(res) == [c |-> c, res |-> res, entry |-> NoNode, child |-> NoNode]
    IN IF g.res # "ok" THEN none(g.res)
       ELSE IF g.entry = NoNode THEN none("false")
       ELSE IF c.heap[g.entry].internal /\ ~allow_drop_internal
       THEN none("CatalogException(internal)")
       ELSE [c |-> p.c, res |-> "true", entry |-> p.entry, child |-> p.child]

\* DropEntryInternal: [c, res, entry, child]
DropEntryInternal(c, transaction, name, allow_drop_internal, tombstone_type) ==
    LET g == GetEntryInternal(c, transaction, name)
        p == Publish(c, name, tombstone_type, TRUE, FALSE, transaction)
        none(res) == [c |-> c, res |-> res, entry |-> NoNode, child |-> NoNode]
    IN IF g.res # "ok" THEN none(g.res)
       ELSE IF g.entry = NoNode THEN none("false")
       ELSE IF c.heap[g.entry].internal /\ ~allow_drop_internal
       THEN none("CatalogException(internal)")
       ELSE [c |-> p.c, res |-> "true", entry |-> p.entry, child |-> p.child]

\* what DropEntry does once DropDependencies has its entry
DropAfterDependencies(t, name, c, entry, allow) ==
    /\ Store(c)
    /\ DropDependencies(c, entry, allow, TRUE) = "go" => CanPush(t, 1)
    /\ \E depOk \in (IF DropDependencies(c, entry, allow, TRUE) = "go" THEN BOOLEAN ELSE {TRUE}) :
         LET res == DropDependencies(c, entry, allow, depOk) IN
         IF res = "go"
         THEN Goto(t, [IdleTh EXCEPT !.pc = "drop_locked", !.op = "DropEntry", !.name = name,
                                     !.internal = allow, !.calls = DropCalls(res)])
         ELSE Return(t, "DropEntry", name, res, NoNode, DropCalls(res))

\* DropDependencies from its GetEntry on
DropEntryStart(t, name, allow_drop_internal) ==
    /\ IF MapGetEntry(Cat, name) # NoNode
       THEN DropAfterDependencies(t, name, Cat, GetEntryOfChain(Cat, Tx(t), name),
                                  allow_drop_internal)
       ELSE IF ~DefaultsPending
       THEN DropAfterDependencies(t, name, Cat, NoNode, allow_drop_internal)
       ELSE /\ Goto(t, [IdleTh EXCEPT !.pc = "get_default", !.op = "DropEntry", !.name = name,
                                      !.internal = allow_drop_internal])
            /\ UNCHANGED <<entries, heap>>
    /\ UNCHANGED <<created_all_entries, hasDefaults, txn, clock, writeLock>>

DropEntry(t, name, allow_drop_internal) ==
    Ready(t) /\ DropEntryStart(t, name, allow_drop_internal)

\* the GetEntry of DropDependencies comes back from the default generator
DropEntryDefault(t) ==
    LET g == GetEntryAfterGenerator(Cat, Tx(t), th[t].name) IN
    /\ th[t].pc = "get_default" /\ th[t].op = "DropEntry"
    /\ IF g.res = "retry"
       THEN Store(g.c) /\ Goto(t, [th[t] EXCEPT !.pc = "get_retry"])
       ELSE IF g.res # "ok"
       THEN Store(g.c) /\ Return(t, "DropEntry", th[t].name, g.res, NoNode, <<>>)
       ELSE DropAfterDependencies(t, th[t].name, g.c, g.entry, th[t].internal)
    /\ UNCHANGED <<created_all_entries, hasDefaults, txn, clock, writeLock>>

\* line 488 inside DropDependencies: its GetEntry starts again
DropEntryRetry(t) ==
    /\ th[t].pc = "get_retry" /\ th[t].op = "DropEntry"
    /\ DropEntryStart(t, th[t].name, th[t].internal)

\* lines 360-362: both locks, then DropEntryInternal
DropEntryLocked(t) ==
    LET r == DropEntryInternal(Cat, Tx(t), th[t].name, th[t].internal, "DELETED_ENTRY") IN
    /\ th[t].pc = "drop_locked"
    /\ writeLock = 0
    /\ Store(r.c)
    /\ txn' = IF r.res = "true" THEN PushCatalogEntry(t, r.child) ELSE txn
    /\ Return(t, "DropEntry", th[t].name, r.res, r.entry, th[t].calls)
    /\ UNCHANGED <<created_all_entries, hasDefaults, clock, writeLock>>

(***************************************************************************)
(* CatalogSet::AlterEntry.  `newname` is the name of the replacement the   *)
(* entry's own AlterEntry returns; "" when it returns none.                *)
(***************************************************************************)
\* faulty variant: the DependencyManager is not asked
AlterFinishSkipsCheck(t, name, new_entry, calls) ==
    Return(t, "AlterEntry", name, "true", new_entry, calls)

\* lines 299-307: the locks are released, then the DependencyManager checks
AlterFinish(t, name, new_entry, calls) ==
    \E depOk \in BOOLEAN :
        Return(t, "AlterEntry", name, IF depOk THEN "true" ELSE "DependencyException",
               new_entry, Append(calls, "AlterObject"))

\* lines 251-260: the destination of a rename is taken for this transaction
RenameTargetExists(c, transaction, newname) ==
    /\ MapGetEntry(c, newname) # NoNode
    /\ ~c.heap[GetEntryForTransaction(c, transaction, MapGetEntry(c, newname))].deleted

\* faulty variant: a declined alter is reported as a failure
AlterEntryDeclineFails(t, name, newname, allow_internal) ==
    /\ Ready(t)
    /\ writeLock = 0
    /\ newname = ""
    /\ Return(t, "AlterEntry", name, "false", NoNode, <<>>)
    /\ UNCHANGED <<entries, heap, txn, created_all_entries, hasDefaults, clock, writeLock>>

AlterEntry(t, name, newname, allow_internal) ==
    LET g == GetEntryInternal(Cat, Tx(t), name)
        entry == g.entry
        p == Publish(Cat, name, heap[entry].type, FALSE, heap[entry].internal, Tx(t))
        d == DropEntryInternal(Cat, Tx(t), name, FALSE, "RENAMED_ENTRY")
        same == <<entries, heap, txn>>
    IN
    /\ Ready(t)
    /\ writeLock = 0
    /\ UNCHANGED <<created_all_entries, hasDefaults, clock, writeLock>>
    /\ IF g.res # "ok"
       THEN Return(t, "AlterEntry", name, g.res, NoNode, <<>>) /\ UNCHANGED same
       ELSE IF entry = NoNode
       THEN Return(t, "AlterEntry", name, "false", NoNode, <<>>) /\ UNCHANGED same
       ELSE IF ~allow_internal /\ heap[entry].internal
       THEN Return(t, "AlterEntry", name, "CatalogException(internal)", NoNode, <<>>)
            /\ UNCHANGED same
       ELSE IF newname = ""
       THEN Return(t, "AlterEntry", name, "true", NoNode, <<>>) /\ UNCHANGED same
       ELSE IF newname = name
       THEN /\ CanPush(t, 1)
            /\ Store(p.c)
            /\ txn' = PushCatalogEntry(t, p.child)
            /\ AlterFinish(t, name, p.entry, <<>>)
       ELSE IF RenameTargetExists(Cat, Tx(t), newname)
       THEN Return(t, "AlterEntry", name, "CatalogException(rename)", NoNode, <<"UndoAlter">>)
            /\ UNCHANGED same
       ELSE IF heap[entry].internal
       THEN \* DropEntryInternal refuses: allow_drop_internal is false
            Return(t, "AlterEntry", name, "CatalogException(internal)", NoNode, <<>>)
            /\ UNCHANGED same
       ELSE /\ CanPush(t, 3)
            /\ d.res = "true"
            /\ Store(d.c)
            /\ txn' = PushCatalogEntry(t, d.child)
            /\ Goto(t, [IdleTh EXCEPT !.pc = "alter_create", !.op = "AlterEntry",
                                      !.name = name, !.dest = newname, !.entry = entry,
                                      !.internal = heap[entry].internal])

\* what AlterEntry does with the outcome of its CreateEntry, line 274
AlterAfterCreate(t, r, calls) ==
    /\ Store(r.c)
    /\ txn' = IF r.res = "true" THEN PushCatalogEntry(t, r.child) ELSE txn
    /\ IF r.res \in {"true", "false"}
       THEN Goto(t, [th[t] EXCEPT !.pc = "alter_relock", !.calls = calls])
       ELSE Return(t, "AlterEntry", th[t].name, r.res, NoNode, calls)

\* lines 268-274: the RENAMED_ENTRY placeholder is created under the new name
AlterCreate(t) ==
    LET dest == th[t].dest
        calls == Append(th[t].calls, "AddObject")
    IN
    /\ th[t].pc = "alter_create"
    /\ writeLock = 0
    /\ UNCHANGED <<created_all_entries, hasDefaults, clock>>
    /\ IF MapGetEntry(Cat, dest) = NoNode /\ DefaultsPending
       THEN /\ writeLock' = t
            /\ Goto(t, [th[t] EXCEPT !.pc = "create_default", !.calls = calls])
            /\ UNCHANGED <<entries, heap, txn>>
       ELSE /\ writeLock' = writeLock
            /\ AlterAfterCreate(t, CreateLocked(Cat, Tx(t), dest, "RENAMED_ENTRY", FALSE), calls)

AlterCreateDefault(t) ==
    /\ th[t].pc = "create_default" /\ th[t].op = "AlterEntry"
    /\ writeLock' = 0
    /\ AlterAfterCreate(t, CreateAfterGenerator(Cat, Tx(t), th[t].dest, "RENAMED_ENTRY", FALSE),
                        th[t].calls)
    /\ UNCHANGED <<created_all_entries, hasDefaults, clock>>

\* lines 275-307: the locks are taken again and the altered entry becomes the
\* head of the chain of the new name
AlterRelock(t) ==
    LET dest == th[t].dest
        lookup == GetEntryInternal(Cat, Tx(t), dest)
        p == Publish(Cat, dest, "TABLE_ENTRY", FALSE, th[t].internal, Tx(t))
    IN
    /\ th[t].pc = "alter_relock"
    /\ writeLock = 0
    /\ UNCHANGED <<created_all_entries, hasDefaults, clock, writeLock>>
    /\ IF lookup.res # "ok"
       THEN Return(t, "AlterEntry", th[t].name, lookup.res, NoNode, th[t].calls)
            /\ UNCHANGED <<entries, heap, txn>>
       ELSE IF p.c.fault # ""
       THEN Return(t, "AlterEntry", th[t].name, p.c.fault, NoNode, th[t].calls)
            /\ UNCHANGED <<entries, heap, txn>>
       ELSE /\ Store(p.c)
            /\ txn' = PushCatalogEntry(t, p.child)
            /\ AlterFinish(t, th[t].name, p.entry, th[t].calls)

(***************************************************************************)
(* CatalogSet::Scan(transaction, callback), SimilarEntry and               *)
(* CreateDefaultEntries.                                                   *)
(***************************************************************************)
\* DefaultGenerator::GetDefaultEntries
DefaultEntries == <<"b">>

\* faulty variant: the callback is invoked with the head of every chain
ScanVisitsHeads(c, transaction) ==
    {e \in NodeIds : \E name \in Names : e = MapGetEntry(c, name) /\ ~c.heap[e].deleted}

\* lines 573-579: the entries the callback is invoked with
ScanVisits(c, transaction) ==
    {e \in NodeIds :
        \E name \in Names :
            /\ MapGetEntry(c, name) # NoNode
            /\ e = GetEntryForTransaction(c, transaction, MapGetEntry(c, name))
            /\ ~c.heap[e].deleted}

\* StringUtil::SimilarityScore: the edit distance of two names, which are one
\* character long here: no edit for the same name, one for another name
SimilarityScore(s1, s2) == IF s1 = s2 THEN 0 ELSE 1

\* lines 432-440: the names the loop over map.Entries() can end with. Every
\* key of the map is compared with `name` and a key replaces the result
\* when its distance is smaller (a SimilarCatalogEntry starts with no name
\* and a distance above every distance): the result is a key at the least
\* distance, the first one of them in the order of the unordered map,
\* which is any of them, and no name when the map is empty
SimilarNames(c, name) ==
    LET keys == {k \in Names : MapGetEntry(c, k) # NoNode}
    IN IF keys = {} THEN {""}
       ELSE {k \in keys :
                \A other \in keys : SimilarityScore(k, name) <= SimilarityScore(other, name)}

\* what Scan (lines 573-579) and SimilarEntry (lines 432-440) do once the
\* default entries are there: the callback is invoked, the names are compared
ScanReturn(t, op, name, c) ==
    /\ th' = [th EXCEPT ![t] = IdleTh]
    /\ \E result \in (IF op = "Scan" THEN {""} ELSE SimilarNames(c, name)) :
           last' = [Outcome(op, t, name, "ok", NoNode, <<>>)
                       EXCEPT !.visited = IF op = "Scan" THEN ScanVisits(c, Tx(t)) ELSE {},
                              !.similar = result]
    /\ UNCHANGED <<committed, limits, catalog_lock>>

\* the loop of CreateDefaultEntries from position i on, up to the next point
\* where the set lock is given up, and the scan that follows it; `name` is
\* the name SimilarEntry was called with (none for Scan), which the session
\* keeps in `dest` while the generator is asked
ScanLoop(t, op, name, c, i) ==
    LET missing == {j \in i..Len(DefaultEntries) : MapGetEntry(c, DefaultEntries[j]) = NoNode}
        next == CHOOSE j \in missing : \A k \in missing : j <= k
    IN
    /\ Store(c)
    /\ IF missing = {}
       THEN /\ created_all_entries' = TRUE
            /\ ScanReturn(t, op, name, c)
       ELSE /\ Goto(t, [IdleTh EXCEPT !.pc = "scan_default", !.op = op,
                                      !.name = DefaultEntries[next], !.dest = name,
                                      !.idx = next])
            /\ UNCHANGED created_all_entries

\* CreateDefaultEntries and what follows it in Scan and in SimilarEntry
ScanStart(t, op, name) ==
    /\ UNCHANGED <<hasDefaults, txn, clock, writeLock>>
    /\ IF ~DefaultsPending
       THEN /\ ScanReturn(t, op, name, Cat)
            /\ UNCHANGED <<entries, heap, created_all_entries>>
       ELSE ScanLoop(t, op, name, Cat, 1)

Scan(t) == Ready(t) /\ ScanStart(t, "Scan", "")

SimilarEntry(t, name) == Ready(t) /\ ScanStart(t, "SimilarEntry", name)

\* CatalogSet::Scan(callback), lines 586-596, the scan that is given no
\* transaction: under the set lock, the callback is invoked with the entry
\* GetCommittedEntry finds in each chain unless that entry is deleted; the
\* caller is no session of the model (t = 0)
ScanCommitted ==
    /\ catalog_lock = 0
    /\ last' = [Outcome("ScanCommitted", 0, "", "ok", NoNode, <<>>)
                   EXCEPT !.visited =
                       {e \in NodeIds :
                           \E name \in Names :
                               /\ MapGetEntry(Cat, name) # NoNode
                               /\ e = GetCommittedEntry(Cat, MapGetEntry(Cat, name))
                               /\ ~heap[e].deleted}]
    /\ UNCHANGED <<entries, heap, created_all_entries, hasDefaults, txn, clock, writeLock,
                   catalog_lock, th, committed, limits>>

\* lines 556-562: the generator has answered, the set lock is taken again
ScanDefault(t) ==
    LET d == CreateEntryInternal(Cat, th[t].name) IN
    /\ th[t].pc = "scan_default"
    /\ UNCHANGED <<hasDefaults, txn, clock, writeLock>>
    /\ IF d.c.fault # ""
       THEN /\ Return(t, th[t].op, th[t].dest, d.c.fault, NoNode, <<>>)
            /\ UNCHANGED <<entries, heap, created_all_entries>>
       ELSE ScanLoop(t, th[t].op, th[t].dest, d.c, th[t].idx + 1)

(***************************************************************************)
(* The transaction manager: begin, commit, rollback and garbage collection *)
(* of a transaction's undo log.                                            *)
(***************************************************************************)
\* CatalogSet::UpdateTimestamp
UpdateTimestamp(c, e, timestamp) == [c EXCEPT !.heap[e].timestamp = timestamp]

\* faulty variant: the dummy root of a chain is left behind
UndoKeepsRoot(c, entry) == MapDropEntry(c, c.heap[entry].parent)

\* faulty variant: the tombstone of a rename is left where it is
UndoLeavesRenamed(c, entry) ==
    LET to_be_removed_node == c.heap[entry].parent
        c1 == MapDropEntry(c, to_be_removed_node)
    IN IF c.heap[to_be_removed_node].type = "RENAMED_ENTRY" THEN c
       ELSE IF c.heap[entry].type = "INVALID" THEN MapDropEntry(c1, entry) ELSE c1

\* CatalogSet::Undo
Undo(c, entry) ==
    LET to_be_removed_node == c.heap[entry].parent
        c1 == MapDropEntry(c, to_be_removed_node)
    IN IF c.heap[entry].type = "INVALID" THEN MapDropEntry(c1, entry) ELSE c1

\* faulty variant: a tombstone that is left alone stays in the directory
CleanupEntryKeepsTombstone(c, catalog_entry) == MapDropEntry(c, catalog_entry)

\* CatalogSet::CleanupEntry
CleanupEntry(c, catalog_entry) ==
    LET parent == c.heap[catalog_entry].parent
        c1 == MapDropEntry(c, catalog_entry)
    IN IF c1.heap[parent].deleted /\ ~HasChild(c1, parent) /\ ~HasParent(c1, parent)
       THEN MapDropEntry(c1, parent)
       ELSE c1

\* commit: every version the transaction published gets the commit id
RECURSIVE CommitAll(_, _, _)
CommitAll(c, undo, commit_id) ==
    IF undo = <<>> THEN c
    ELSE CommitAll(UpdateTimestamp(c, c.heap[Head(undo)].parent, commit_id), Tail(undo), commit_id)

\* rollback: the undo log is undone backwards
RECURSIVE UndoAll(_, _)
UndoAll(c, undo) ==
    IF undo = <<>> THEN c
    ELSE UndoAll(Undo(c, undo[Len(undo)]), SubSeq(undo, 1, Len(undo) - 1))

\* cleanup: the undo log is cleaned up forwards
RECURSIVE CleanupAll(_, _)
CleanupAll(c, undo) ==
    IF undo = <<>> THEN c
    ELSE CleanupAll(CleanupEntry(c, Head(undo)), Tail(undo))

Begin(t) ==
    /\ txn[t].status = "none"
    /\ \A u \in Txns : u < t => txn[u].status # "none"
    /\ txn' = [txn EXCEPT ![t] = [NoTxn EXCEPT !.status = "active", !.start_time = clock]]
    /\ clock' = clock + 1
    /\ last' = Outcome("Begin", t, "", "ok", NoNode, <<>>)
    /\ UNCHANGED <<entries, heap, created_all_entries, hasDefaults, writeLock, th, committed, limits, catalog_lock>>

\* what the latest committed change leaves under `name` once t has committed
CommittedBy(t, name) ==
    LET current == entries[name] IN
    IF current # NoNode /\ heap[current].timestamp = Tx(t).transaction_id
    THEN IF heap[current].deleted THEN NoNode ELSE current
    ELSE committed[name]

Commit(t) ==
    /\ Ready(t)
    /\ writeLock = 0
    /\ Store(CommitAll(Cat, txn[t].undo, clock))
    /\ committed' = [name \in Names |-> CommittedBy(t, name)]
    /\ limits' = limits
    /\ catalog_lock' = catalog_lock
    /\ txn' = [txn EXCEPT ![t].status = "committed", ![t].commit_id = clock,
                          ![t].origin = NoOrigin]
    /\ clock' = clock + 1
    /\ last' = Outcome("Commit", t, "", "ok", NoNode, <<>>)
    /\ UNCHANGED <<created_all_entries, hasDefaults, writeLock, th>>

\* the entries a rollback calls Undo with, latest first
UndoCalls(undo) ==
    [i \in 1..Len(undo) |-> [name |-> heap[undo[Len(undo) + 1 - i]].name,
                             type |-> heap[undo[Len(undo) + 1 - i]].type]]

Rollback(t) ==
    /\ Ready(t)
    /\ writeLock = 0
    /\ Store(UndoAll(Cat, txn[t].undo))
    /\ txn' = [txn EXCEPT ![t] = [NoTxn EXCEPT !.status = "aborted"]]
    /\ last' = [Outcome("Rollback", t, "", "ok", NoNode, <<>>)
                   EXCEPT !.undone = UndoCalls(txn[t].undo)]
    /\ UNCHANGED <<created_all_entries, hasDefaults, clock, writeLock, th, committed, limits, catalog_lock>>

\* no snapshot that is live, and none that can still start, sees the state
\* before this commit; older commits are collected first
CanCleanup(t) ==
    /\ txn[t].status = "committed"
    /\ \A u \in Txns : Active(u) => txn[u].start_time > txn[t].commit_id
    /\ \A u \in Txns : txn[u].status = "committed" => txn[u].commit_id >= txn[t].commit_id

\* the entries a cleanup calls CleanupEntry with, oldest first
CleanupCalls(undo) ==
    [i \in 1..Len(undo) |-> [name |-> heap[undo[i]].name, type |-> heap[undo[i]].type]]

Cleanup(t) ==
    /\ CanCleanup(t)
    /\ writeLock = 0
    /\ Store(CleanupAll(Cat, txn[t].undo))
    /\ txn' = [txn EXCEPT ![t] = [NoTxn EXCEPT !.status = "cleaned"]]
    /\ last' = [Outcome("Cleanup", t, "", "ok", NoNode, <<>>)
                   EXCEPT !.undone = CleanupCalls(txn[t].undo)]
    /\ UNCHANGED <<created_all_entries, hasDefaults, clock, writeLock, th, committed, limits, catalog_lock>>

(***************************************************************************)
(* The specification.                                                      *)
(***************************************************************************)
\* the catalog when the run starts: empty, or with entries that earlier
\* transactions committed and whose history has been cleaned up
InitialCat(present) ==
    [entries |-> [n \in Names |-> IF n \in present THEN InitialSlot(n) ELSE NoNode],
     heap |-> [i \in NodeIds |->
                 IF \E n \in present : i = InitialSlot(n)
                 THEN NewNode(CHOOSE n \in present : i = InitialSlot(n), "TABLE_ENTRY",
                              FALSE, FALSE, InitialTimestamp)
                 ELSE FreeNode]]

\* what a snapshot finds under `name` before anything has been written
InitialEntry(present, defaults, name) ==
    IF name \in present THEN InitialSlot(name)
    ELSE IF defaults /\ GeneratorHas(name) THEN DefaultSlot(name)
    ELSE NoNode

InitWith(present, defaults, lim) ==
    /\ entries = InitialCat(present).entries
    /\ heap = InitialCat(present).heap
    /\ created_all_entries = FALSE
    /\ hasDefaults = defaults
    /\ txn = [t \in Txns |-> NoTxn]
    /\ clock = 2
    /\ writeLock = 0
    /\ catalog_lock = 0
    /\ th = [t \in Txns |-> IdleTh]
    /\ last = Outcome("Init", 0, "", "ok", NoNode, <<>>)
    /\ committed = [name \in Names |-> InitialEntry(present, defaults, name)]
    /\ limits = lim
    /\ idle = 0

\* the first k names hold a committed entry
Init ==
    \E k \in 0..MaxInitial, defaults \in BOOLEAN :
        InitWith({name \in Names : NameIndex(name) <= k}, defaults,
                 [undo |-> MaxUndo, nodes |-> MaxNodes])

\* a step of the run that is A. A step without effect reaches a state that
\* differs from the state it was taken in by `last` alone, and no operation
\* reads `last`: the steps that can follow it, and their outcomes, are those
\* that can follow the state it was taken in, where they are taken as well.
\* A run is therefore followed for MaxIdle steps past its last step with an
\* effect; every state and every step of the longer runs is one of these
Step(A) ==
    /\ idle < MaxIdle
    /\ A
    /\ idle' = IF UNCHANGED <<entries, heap, created_all_entries, hasDefaults, txn, clock,
                               writeLock, catalog_lock, th, committed, limits>>
               THEN idle + 1 ELSE 0

\* the steps of the operations that need no default generator
Operation(t) ==
    \/ Step(Begin(t))
    \/ Step(Commit(t))
    \/ Step(Rollback(t))
    \/ Step(Cleanup(t))
    \/ \E name \in Names :
           Step(GetEntry(t, name))
    \/ \E name \in Names, internal \in BOOLEAN, temporary \in BOOLEAN :
           Step(CreateEntry(t, name, internal, temporary))
    \/ \E name \in Names, allow \in BOOLEAN :
           Step(DropEntry(t, name, allow))
    \/ Step(DropEntryLocked(t))
    \/ \E name \in Names, newname \in Names \cup {""}, allow \in BOOLEAN :
           Step(AlterEntry(t, name, newname, allow))
    \/ Step(AlterCreate(t))
    \/ Step(AlterRelock(t))
    \/ Step(Scan(t))
    \/ \E name \in Names \cup {"c"} :
           Step(SimilarEntry(t, name))

\* the steps that come back from the default generator
GeneratorStep(t) ==
    \/ Step(GetEntryDefault(t))
    \/ Step(GetEntryRetry(t))
    \/ Step(CreateEntryDefault(t))
    \/ Step(DropEntryDefault(t))
    \/ Step(DropEntryRetry(t))
    \/ Step(AlterCreateDefault(t))
    \/ Step(ScanDefault(t))

Next ==
    \/ \E t \in Txns : Operation(t) \/ GeneratorStep(t)
    \/ Step(ScanCommitted)

Spec == Init /\ [][Next]_vars

\* a set constructed without a default generator, with longer transactions
InitNoDefaults ==
    \E k \in 0..MaxInitialPlain :
        InitWith({name \in Names : NameIndex(name) <= k}, FALSE,
                 [undo |-> MaxUndoPlain, nodes |-> MaxNodesPlain])

NextNoDefaults ==
    \/ \E t \in Txns : Operation(t)
    \/ Step(ScanCommitted)

SpecNoDefaults == InitNoDefaults /\ [][NextNoDefaults]_vars

\* the runs in which no call raises: every call returns normally
Quiet == last.res \in {"ok", "true", "false", "pending"}

NextQuiet ==
    \/ Step(ScanCommitted /\ Quiet')
    \/ \E t \in Txns :
        \/ Step(Begin(t) /\ Quiet')
        \/ Step(Commit(t) /\ Quiet')
        \/ Step(Rollback(t) /\ Quiet')
        \/ Step(Cleanup(t) /\ Quiet')
        \/ \E name \in Names : Step(GetEntry(t, name) /\ Quiet')
        \/ \E name \in Names, internal \in BOOLEAN, temporary \in BOOLEAN :
               Step(CreateEntry(t, name, internal, temporary) /\ Quiet')
        \/ \E name \in Names, allow \in BOOLEAN : Step(DropEntry(t, name, allow) /\ Quiet')
        \/ Step(DropEntryLocked(t) /\ Quiet')
        \/ \E name \in Names, newname \in Names \cup {""}, allow \in BOOLEAN :
               Step(AlterEntry(t, name, newname, allow) /\ Quiet')
        \/ Step(AlterCreate(t) /\ Quiet')
        \/ Step(AlterRelock(t) /\ Quiet')
        \/ Step(Scan(t) /\ Quiet')
        \/ \E name \in Names \cup {"c"} : Step(SimilarEntry(t, name) /\ Quiet')
        \/ Step(GetEntryDefault(t) /\ Quiet')
        \/ Step(GetEntryRetry(t) /\ Quiet')
        \/ Step(CreateEntryDefault(t) /\ Quiet')
        \/ Step(DropEntryDefault(t) /\ Quiet')
        \/ Step(DropEntryRetry(t) /\ Quiet')
        \/ Step(AlterCreateDefault(t) /\ Quiet')
        \/ Step(ScanDefault(t) /\ Quiet')

SpecQuiet == Init /\ [][NextQuiet]_vars

(***************************************************************************)
(* The locks.  In the specification that follows, every lock operation,    *)
(* every access to the directory (CatalogEntryMap) and every call to a     *)
(* collaborator is a step of its own, taken in the order of the statements *)
(* of the source; the program counter of a session names the function and  *)
(* the source line of its next statement.  Of the directory the            *)
(* specification keeps which names have a chain and whether the chain is   *)
(* the materialised default entry alone; the outcome of a test on the      *)
(* versions of a chain (conflict, deleted, internal) is left open.         *)
(***************************************************************************)
\* calls that the sessions make in a run
MaxCalls == 2

\* what a step does: a lock operation, an access to the directory (read,
\* write), a call to a collaborator or none of these; `last` holds the step
\* made last and the session that made it
Event(kind, what) == [kind |-> kind, what |-> what]
Did(t, ev) == [t |-> t, kind |-> ev.kind, what |-> ev.what]

\* the collaborator that sees the changes of the set
DependencyManagerCalls == {"AddObject", "AlterObject", "DropObject", "AddOwnership"}

\* a session between two calls; inside a call, `calls` are the calls made to
\* the DependencyManager so far
IdleLock == [pc |-> "idle", op |-> "none", name |-> "", stack |-> <<>>, res |-> "",
             calls |-> {}]

Called(t, ev) ==
    IF ev.kind = "call" /\ ev.what \in DependencyManagerCalls
    THEN th[t].calls \cup {ev.what} ELSE th[t].calls

\* the head of a chain that a writer has published to
Versioned(name) == InitialSlot(name)

\* the other name of a rename
Other(name) == CHOOSE n \in Names : n # name

At(t, pc) == th[t].pc = pc

\* the session goes on at pc; res is what the statement produced
Jump(t, pc, res, ev) ==
    /\ th' = [th EXCEPT ![t] = [th[t] EXCEPT !.pc = pc, !.res = res, !.calls = Called(t, ev)]]
    /\ last' = Did(t, ev)

\* a function is called; ret is where the caller goes on
CallFn(t, pc, name, ret, ev) ==
    /\ th' = [th EXCEPT ![t] = [th[t] EXCEPT !.pc = pc, !.name = name, !.res = "",
                                             !.stack = <<ret>> \o th[t].stack]]
    /\ last' = Did(t, ev)

\* the function returns res (or raises) to its caller
Leave(t, res, ev) ==
    /\ th' = [th EXCEPT ![t] =
                 IF th[t].stack = <<>> THEN IdleLock
                 ELSE [th[t] EXCEPT !.pc = Head(th[t].stack), !.stack = Tail(th[t].stack),
                                    !.res = res, !.calls = Called(t, ev)]]
    /\ last' = Did(t, ev)

\* the two mutexes
Locks(write, set) ==
    /\ writeLock' = write
    /\ catalog_lock' = set
    /\ UNCHANGED <<heap, hasDefaults, txn, committed, limits, idle>>

Holding == Locks(writeLock, catalog_lock)
AcquireWrite(t) == writeLock = 0 /\ Locks(t, catalog_lock)
AcquireSet(t) == catalog_lock = 0 /\ Locks(writeLock, t)
ReleaseWrite(t) == writeLock = t /\ Locks(0, catalog_lock)
ReleaseSet(t) == catalog_lock = t /\ Locks(writeLock, 0)
\* the end of a scope: a lock object releases the mutex if it owns it
ReleaseOwnedSet(t) == Locks(writeLock, IF catalog_lock = t THEN 0 ELSE catalog_lock)
ReleaseOwned(t) ==
    Locks(IF writeLock = t THEN 0 ELSE writeLock, IF catalog_lock = t THEN 0 ELSE catalog_lock)

\* the directory
SameDirectory == UNCHANGED <<entries, created_all_entries, clock>>
SetHead(name, head) ==
    /\ entries' = [entries EXCEPT ![name] = head]
    /\ UNCHANGED <<created_all_entries, clock>>
\* the outcomes of a test on the versions of the chain of `name`: the
\* materialised default entry is committed, live and internal
Untouched(name) == entries[name] = DefaultSlot(name)

(***************************************************************************)
(* A session starts a call.                                                *)
(***************************************************************************)
\* the operations and the first statement of each
EntryPoint ==
    "GetEntry" :> "GetEntry_492" @@ "CreateEntry" :> "CreateEntry_119"
    @@ "AlterEntry" :> "AlterEntry_218" @@ "DropEntry" :> "GetEntry_492"
    @@ "Undo" :> "Undo_521" @@ "CleanupEntry" :> "CleanupEntry_375"
    @@ "Scan" :> "Scan_570" @@ "ScanCommitted" :> "Scan_588"
    @@ "AlterOwnership" :> "AlterOwnership_203"

\* Undo and CleanupEntry are called with a superseded version of a chain;
\* DropEntry starts with the GetEntry of DropDependencies (line 312)
StartCall(t) ==
    /\ At(t, "idle")
    /\ limits.calls > 0
    /\ limits' = [calls |-> limits.calls - 1]
    /\ \E op \in DOMAIN EntryPoint, name \in Names :
           /\ op \in {"Undo", "CleanupEntry"} => entries[name] = Versioned(name)
           /\ th' = [th EXCEPT ![t] =
                        [IdleLock EXCEPT !.pc = EntryPoint[op], !.op = op,
                                         !.name = IF op \in {"Scan", "ScanCommitted"}
                                                  THEN "" ELSE name,
                                         !.stack = IF op = "DropEntry"
                                                   THEN <<"DropDependencies_313">> ELSE <<>>]]
           /\ last' = Did(t, Event("start", op))
    /\ UNCHANGED <<writeLock, catalog_lock, heap, hasDefaults, txn, committed, idle>>
    /\ SameDirectory

(***************************************************************************)
(* The statements that take or release a lock and go on to the next        *)
(* statement, each with the statement that follows it.                     *)
(***************************************************************************)
\* lines 122, 203, 218, 275, 360, 375, 521: the catalog-wide write lock is
\* taken (the exception of the CreateEntry of line 274 passes line 275 by)
LockWrite(t) ==
    LET next == "CreateEntry_122" :> "CreateEntry_124"
                @@ "AlterOwnership_203" :> "AlterOwnership_205"
                @@ "AlterEntry_218" :> "AlterEntry_220" @@ "AlterEntry_275" :> "AlterEntry_276"
                @@ "DropEntry_360" :> "DropEntry_361" @@ "CleanupEntry_375" :> "CleanupEntry_376"
                @@ "Undo_521" :> "Undo_522" IN
    /\ th[t].pc \in DOMAIN next
    /\ th[t].res # "raise"
    /\ AcquireWrite(t)
    /\ SameDirectory
    /\ Jump(t, next[th[t].pc], "", Event("lock_write", ""))

\* lines 124, 220, 276, 361, 376, 474, 492, 522, 561, 570, 588: the set lock
\* is taken
LockSet(t) ==
    LET next == "CreateEntry_124" :> "CreateEntry_127" @@ "AlterEntry_220" :> "AlterEntry_223"
                @@ "AlterEntry_276" :> "AlterEntry_278" @@ "DropEntry_361" :> "DropEntry_362"
                @@ "CleanupEntry_376" :> "CleanupEntry_378"
                @@ "CreateDefaultEntry_474" :> "CreateDefaultEntry_475"
                @@ "GetEntry_492" :> "GetEntry_493" @@ "Undo_522" :> "Undo_534"
                @@ "CreateDefaultEntries_561" :> "CreateDefaultEntries_562"
                @@ "Scan_570" :> "CreateDefaultEntries_545" @@ "Scan_588" :> "Scan_589" IN
    /\ th[t].pc \in DOMAIN next
    /\ AcquireSet(t)
    /\ SameDirectory
    /\ Jump(t, next[th[t].pc], th[t].res, Event("lock_set", ""))

\* lines 263, 303, 555: the set lock is released; lines 487-488: it is
\* released and GetEntry answers in the place of CreateDefaultEntry
UnlockSet(t) ==
    LET next == "AlterEntry_263" :> "AlterEntry_264" @@ "AlterEntry_303" :> "AlterEntry_304"
                @@ "CreateDefaultEntry_487" :> "GetEntry_492"
                @@ "CreateDefaultEntries_555" :> "CreateDefaultEntries_556" IN
    /\ th[t].pc \in DOMAIN next
    /\ ReleaseSet(t)
    /\ SameDirectory
    /\ Jump(t, next[th[t].pc], "", Event("unlock_set", ""))

\* line 304, and lines 210-211 (the owner is looked up in the catalog
\* first): the write lock is released
UnlockWrite(t) ==
    LET next == "AlterOwnership_210" :> "AlterOwnership_212"
                @@ "AlterEntry_304" :> "AlterEntry_305" IN
    /\ th[t].pc \in DOMAIN next
    /\ ReleaseWrite(t)
    /\ SameDirectory
    /\ Jump(t, next[th[t].pc], "", Event("unlock_write", ""))

\* a return or an exception of CreateEntry (line 169), AlterOwnership (214),
\* AlterEntry (308), DropEntry (363), CleanupEntry (386), Undo (542) and of
\* the scans (580, 596): the locks of the function go out of scope
LeaveScope(t) ==
    /\ th[t].pc \in {"CreateEntry_169", "AlterOwnership_214", "AlterEntry_308", "DropEntry_363",
                     "CleanupEntry_386", "Undo_542", "Scan_580", "Scan_596"}
    /\ IF th[t].pc \in {"Scan_580", "Scan_596"} THEN ReleaseOwnedSet(t) ELSE ReleaseOwned(t)
    /\ SameDirectory
    /\ Leave(t, th[t].res, Event("unlock", ""))

(***************************************************************************)
(* CatalogSet::GetEntry, lines 491-510.                                    *)
(***************************************************************************)
\* lines 493-507: the chain is there
GetEntryFound(t) ==
    /\ At(t, "GetEntry_493")
    /\ entries[th[t].name] # NoNode
    /\ Holding
    /\ SameDirectory
    /\ \E res \in (IF Untouched(th[t].name) THEN {"entry"} ELSE {"entry", "null"}) :
           Jump(t, "GetEntry_510", res, Event("read", "GetEntry"))

\* line 509: no chain, CreateDefaultEntry is called with the lock
GetEntryMissing(t) ==
    /\ At(t, "GetEntry_493")
    /\ entries[th[t].name] = NoNode
    /\ Holding
    /\ SameDirectory
    /\ CallFn(t, "CreateDefaultEntry_461", th[t].name, "GetEntry_510", Event("read", "GetEntry"))

\* faulty variant: GetEntry returns with the set lock
GetEntryKeepsLock(t) ==
    /\ At(t, "GetEntry_510")
    /\ Holding
    /\ SameDirectory
    /\ Leave(t, th[t].res, Event("none", ""))

\* the lock of line 492 goes out of scope
GetEntryLeave(t) ==
    /\ At(t, "GetEntry_510")
    /\ ReleaseOwnedSet(t)
    /\ SameDirectory
    /\ Leave(t, th[t].res, Event("unlock", ""))

(***************************************************************************)
(* CatalogSet::CreateDefaultEntry, lines 458-489; the caller holds the set *)
(* lock.                                                                   *)
(***************************************************************************)
\* lines 461-464
CreateDefaultEntryNone(t) ==
    /\ At(t, "CreateDefaultEntry_461")
    /\ ~DefaultsPending
    /\ Holding
    /\ SameDirectory
    /\ Leave(t, "null", Event("none", ""))

\* faulty variant: the set lock is kept while the generator is asked
CreateDefaultEntryKeepsLock(t) ==
    /\ At(t, "CreateDefaultEntry_461")
    /\ DefaultsPending
    /\ Holding
    /\ SameDirectory
    /\ Jump(t, "CreateDefaultEntry_472", "", Event("none", ""))

\* line 471
CreateDefaultEntryUnlock(t) ==
    /\ At(t, "CreateDefaultEntry_461")
    /\ DefaultsPending
    /\ ReleaseSet(t)
    /\ SameDirectory
    /\ Jump(t, "CreateDefaultEntry_472", "", Event("unlock_set", ""))

\* line 472
CreateDefaultEntryAsk(t) ==
    /\ At(t, "CreateDefaultEntry_472")
    /\ Holding
    /\ SameDirectory
    /\ Jump(t, "CreateDefaultEntry_474", IF GeneratorHas(th[t].name) THEN "entry" ELSE "null",
            Event("call", "CreateDefaultEntry"))

\* lines 475-478
CreateDefaultEntryUnknown(t) ==
    /\ At(t, "CreateDefaultEntry_475")
    /\ th[t].res = "null"
    /\ Holding
    /\ SameDirectory
    /\ Leave(t, "null", Event("none", ""))

\* lines 480-483: CreateEntryInternal starts the chain
CreateDefaultEntryInsert(t) ==
    /\ At(t, "CreateDefaultEntry_475")
    /\ th[t].res = "entry"
    /\ entries[th[t].name] = NoNode
    /\ Holding
    /\ SetHead(th[t].name, DefaultSlot(th[t].name))
    /\ Leave(t, "entry", Event("write", "CreateEntryInternal"))

\* line 480: CreateEntryInternal finds a chain and returns nothing
CreateDefaultEntryLost(t) ==
    /\ At(t, "CreateDefaultEntry_475")
    /\ th[t].res = "entry"
    /\ entries[th[t].name] # NoNode
    /\ Holding
    /\ SameDirectory
    /\ Jump(t, "CreateDefaultEntry_487", "", Event("read", "CreateEntryInternal"))

(***************************************************************************)
(* CatalogSet::CreateEntry, lines 113-169, for a candidate that passes the *)
(* validation of lines 93-111.                                             *)
(***************************************************************************)
\* faulty variant: the dependencies are not registered
CreateEntrySkipsAddObject(t) ==
    /\ At(t, "CreateEntry_119")
    /\ Holding
    /\ SameDirectory
    /\ Jump(t, "CreateEntry_122", "", Event("none", ""))

\* line 119
CreateEntryAddObject(t) ==
    /\ At(t, "CreateEntry_119")
    /\ Holding
    /\ SameDirectory
    /\ Jump(t, "CreateEntry_122", "", Event("call", "AddObject"))

\* lines 127-132: no chain, CreateDefaultEntry is called with the set lock
CreateEntryMissing(t) ==
    /\ At(t, "CreateEntry_127")
    /\ entries[th[t].name] = NoNode
    /\ Holding
    /\ SameDirectory
    /\ CallFn(t, "CreateDefaultEntry_461", th[t].name, "CreateEntry_133", Event("read", "GetEntry"))

\* lines 127 and 146-159: the head of the chain is tested
CreateEntryFound(t) ==
    /\ At(t, "CreateEntry_127")
    /\ entries[th[t].name] # NoNode
    /\ Holding
    /\ SameDirectory
    /\ \E res \in (IF Untouched(th[t].name) THEN {"false"} ELSE {"raise", "false", "go"}) :
           IF res = "go" THEN Jump(t, "CreateEntry_162", "", Event("read", "GetEntry"))
           ELSE Jump(t, "CreateEntry_169", res, Event("read", "GetEntry"))

\* lines 133-135: there is a default entry
CreateEntryHasDefault(t) ==
    /\ At(t, "CreateEntry_133")
    /\ th[t].res = "entry"
    /\ Holding
    /\ SameDirectory
    /\ Jump(t, "CreateEntry_169", "false", Event("none", ""))

\* lines 137-145: the dummy root starts the chain (AddEntry raises when the
\* name has one, lines 21-23)
CreateEntryDummy(t) ==
    /\ At(t, "CreateEntry_133")
    /\ th[t].res = "null"
    /\ Holding
    /\ IF entries[th[t].name] = NoNode
       THEN /\ SetHead(th[t].name, Versioned(th[t].name))
            /\ Jump(t, "CreateEntry_162", "", Event("write", "AddEntry"))
       ELSE /\ SameDirectory
            /\ Jump(t, "CreateEntry_169", "raise", Event("read", "AddEntry"))

\* lines 161-168: the candidate is linked in
CreateEntryPublish(t) ==
    /\ At(t, "CreateEntry_162")
    /\ Holding
    /\ SetHead(th[t].name, Versioned(th[t].name))
    /\ Jump(t, "CreateEntry_169", "true", Event("write", "UpdateEntry"))

(***************************************************************************)
(* CatalogSet::AlterEntry, lines 216-308.                                  *)
(***************************************************************************)
\* lines 223-250: the lookup and what the object's own AlterEntry answers
AlterEntryRead(t) ==
    /\ At(t, "AlterEntry_223")
    /\ Holding
    /\ SameDirectory
    /\ \E res \in (IF entries[th[t].name] = NoNode THEN {"false"}
                   ELSE {"raise", "false", "true", "alter", "rename"}) :
           IF res = "alter" THEN Jump(t, "AlterEntry_282", "", Event("read", "GetEntryInternal"))
           ELSE IF res = "rename"
           THEN Jump(t, "AlterEntry_251", "", Event("read", "GetEntryInternal"))
           ELSE Jump(t, "AlterEntry_308", res, Event("read", "GetEntryInternal"))

\* lines 251-260: the new name is looked up
AlterEntryDestination(t) ==
    /\ At(t, "AlterEntry_251")
    /\ Holding
    /\ SameDirectory
    /\ \E taken \in (IF entries[Other(th[t].name)] = NoNode THEN {FALSE}
                     ELSE IF Untouched(Other(th[t].name)) THEN {TRUE} ELSE BOOLEAN) :
           IF taken THEN Jump(t, "AlterEntry_308", "raise", Event("read", "GetEntry"))
           ELSE Jump(t, "AlterEntry_261", "", Event("read", "GetEntry"))

\* line 261: DropEntryInternal publishes the RENAMED_ENTRY tombstone, or
\* refuses an internal object
AlterEntryDropOld(t) ==
    /\ At(t, "AlterEntry_261")
    /\ Holding
    /\ \E ok \in BOOLEAN :
           IF ok
           THEN /\ SetHead(th[t].name, Versioned(th[t].name))
                /\ Jump(t, "AlterEntry_263", "", Event("write", "UpdateEntry"))
           ELSE /\ SameDirectory
                /\ Jump(t, "AlterEntry_308", "raise", Event("read", "GetEntryInternal"))

\* lines 264-274: the write lock is released and CreateEntry is called with
\* the new name
AlterEntryUnlockWriteForCreate(t) ==
    /\ At(t, "AlterEntry_264")
    /\ ReleaseWrite(t)
    /\ SameDirectory
    /\ CallFn(t, "CreateEntry_119", Other(th[t].name), "AlterEntry_275", Event("unlock_write", ""))

\* line 274: the exception of CreateEntry goes on to the caller
AlterEntryCreateRaised(t) ==
    /\ At(t, "AlterEntry_275")
    /\ th[t].res = "raise"
    /\ Holding
    /\ SameDirectory
    /\ Leave(t, "raise", Event("none", ""))

\* line 278
AlterEntryLookup(t) ==
    /\ At(t, "AlterEntry_278")
    /\ Holding
    /\ SameDirectory
    /\ \E res \in (IF entries[th[t].name] = NoNode \/ Untouched(th[t].name) THEN {"go"}
                   ELSE {"go", "raise"}) :
           IF res = "go" THEN Jump(t, "AlterEntry_282", "", Event("read", "GetEntryInternal"))
           ELSE Jump(t, "AlterEntry_308", "raise", Event("read", "GetEntryInternal"))

\* lines 280-297: the altered entry becomes the head (UpdateEntry raises
\* when the name has no chain, lines 29-32)
AlterEntryUpdate(t) ==
    /\ At(t, "AlterEntry_282")
    /\ Holding
    /\ IF entries[th[t].name] = NoNode
       THEN /\ SameDirectory
            /\ Jump(t, "AlterEntry_308", "raise", Event("read", "UpdateEntry"))
       ELSE /\ SetHead(th[t].name, Versioned(th[t].name))
            /\ Jump(t, "AlterEntry_303", "", Event("write", "UpdateEntry"))

\* lines 305-307
AlterEntryAlterObject(t) ==
    /\ At(t, "AlterEntry_305")
    /\ Holding
    /\ SameDirectory
    /\ \E res \in {"true", "raise"} : Leave(t, res, Event("call", "AlterObject"))

(***************************************************************************)
(* CatalogSet::DropEntry, lines 356-363, with DropDependencies (lines      *)
(* 310-324) and DropEntryInternal (lines 326-354).                         *)
(***************************************************************************)
\* lines 313-315
DropDependenciesMissing(t) ==
    /\ At(t, "DropDependencies_313")
    /\ th[t].res = "null"
    /\ Holding
    /\ SameDirectory
    /\ Leave(t, "false", Event("none", ""))

\* lines 316-318: an internal object
DropDependenciesRefuse(t) ==
    /\ At(t, "DropDependencies_313")
    /\ th[t].res = "entry"
    /\ Holding
    /\ SameDirectory
    /\ Leave(t, "raise", Event("none", ""))

\* lines 319-323
DropDependenciesDropObject(t) ==
    /\ At(t, "DropDependencies_313")
    /\ th[t].res = "entry"
    /\ Holding
    /\ SameDirectory
    /\ \E ok \in BOOLEAN :
           IF ok THEN Jump(t, "DropEntry_360", "", Event("call", "DropObject"))
           ELSE Leave(t, "raise", Event("call", "DropObject"))

\* line 362: DropEntryInternal publishes the tombstone, finds nothing or
\* raises
DropEntryTombstone(t) ==
    /\ At(t, "DropEntry_362")
    /\ Holding
    /\ \E res \in (IF entries[th[t].name] = NoNode THEN {"false"}
                   ELSE {"raise", "false", "true"}) :
           IF res = "true"
           THEN /\ SetHead(th[t].name, Versioned(th[t].name))
                /\ Jump(t, "DropEntry_363", "true", Event("write", "UpdateEntry"))
           ELSE /\ SameDirectory
                /\ Jump(t, "DropEntry_363", res, Event("read", "GetEntryInternal"))

(***************************************************************************)
(* CatalogSet::Undo (lines 520-542) and CatalogSet::CleanupEntry (lines    *)
(* 373-386).                                                               *)
(***************************************************************************)
\* lines 528-539 and 377-385: CatalogEntryMap::DropEntry unlinks a version;
\* the chain goes with it when nothing is left of it
Unlink(t) ==
    LET next == "CleanupEntry_378" :> "CleanupEntry_386" @@ "Undo_534" :> "Undo_542" IN
    /\ th[t].pc \in DOMAIN next
    /\ Holding
    /\ \/ SameDirectory
       \/ entries[th[t].name] # NoNode /\ SetHead(th[t].name, NoNode)
    /\ Jump(t, next[th[t].pc], "", Event("write", "DropEntry"))

\* lines 573-579 and 589-595: the directory is iterated
Iterate(t) ==
    LET next == "Scan_573" :> "Scan_580" @@ "Scan_589" :> "Scan_596" IN
    /\ th[t].pc \in DOMAIN next
    /\ Holding
    /\ SameDirectory
    /\ Jump(t, next[th[t].pc], "", Event("read", "Entries"))

(***************************************************************************)
(* CatalogSet::Scan (lines 568-580) with CreateDefaultEntries (lines       *)
(* 544-566), and the scan of the committed entries (lines 586-596).        *)
(* SimilarEntry (lines 428-441) takes the steps of Scan: set lock,         *)
(* CreateDefaultEntries, iteration.                                        *)
(***************************************************************************)
\* lines 545-547
CreateDefaultEntriesNone(t) ==
    /\ At(t, "CreateDefaultEntries_545")
    /\ ~DefaultsPending
    /\ Holding
    /\ SameDirectory
    /\ Jump(t, "Scan_573", "", Event("none", ""))

\* line 549
CreateDefaultEntriesList(t) ==
    /\ At(t, "CreateDefaultEntries_545")
    /\ DefaultsPending
    /\ Holding
    /\ SameDirectory
    /\ th' = [th EXCEPT ![t] = [th[t] EXCEPT !.pc = "CreateDefaultEntries_551",
                                             !.name = DefaultEntries[1]]]
    /\ last' = Did(t, Event("call", "GetDefaultEntries"))

\* the loop of lines 550-564 goes on to the next default entry; after the
\* last one created_all_entries is set (line 565)
NextDefaultEntry(t, ev) ==
    LET i == CHOOSE j \in 1..Len(DefaultEntries) : DefaultEntries[j] = th[t].name IN
    /\ last' = Did(t, ev)
    /\ IF i < Len(DefaultEntries)
       THEN /\ th' = [th EXCEPT ![t] = [th[t] EXCEPT !.pc = "CreateDefaultEntries_551",
                                                     !.name = DefaultEntries[i + 1]]]
            /\ UNCHANGED created_all_entries
       ELSE /\ th' = [th EXCEPT ![t] = [th[t] EXCEPT !.pc = "Scan_573", !.name = ""]]
            /\ created_all_entries' = TRUE

\* line 551: the default entry has a chain
CreateDefaultEntriesFound(t) ==
    /\ At(t, "CreateDefaultEntries_551")
    /\ entries[th[t].name] # NoNode
    /\ Holding
    /\ UNCHANGED <<entries, clock>>
    /\ NextDefaultEntry(t, Event("read", "GetEntry"))

\* lines 551-552: it has none
CreateDefaultEntriesMissing(t) ==
    /\ At(t, "CreateDefaultEntries_551")
    /\ entries[th[t].name] = NoNode
    /\ Holding
    /\ SameDirectory
    /\ Jump(t, "CreateDefaultEntries_555", "", Event("read", "GetEntry"))

\* lines 556-559: the generator has an entry for every name it lists
CreateDefaultEntriesAsk(t) ==
    /\ At(t, "CreateDefaultEntries_556")
    /\ Holding
    /\ SameDirectory
    /\ Jump(t, "CreateDefaultEntries_561", "", Event("call", "CreateDefaultEntry"))

\* line 562: CreateEntryInternal starts the chain unless there is one
CreateDefaultEntriesInsert(t) ==
    /\ At(t, "CreateDefaultEntries_562")
    /\ Holding
    /\ UNCHANGED clock
    /\ IF entries[th[t].name] = NoNode
       THEN /\ entries' = [entries EXCEPT ![th[t].name] = DefaultSlot(th[t].name)]
            /\ NextDefaultEntry(t, Event("write", "CreateEntryInternal"))
       ELSE /\ UNCHANGED entries
            /\ NextDefaultEntry(t, Event("read", "CreateEntryInternal"))

(***************************************************************************)
(* CatalogSet::AlterOwnership, lines 201-214.                              *)
(***************************************************************************)
\* lines 205-208: GetEntryInternal looks the name up; a session that holds
\* the set lock may be changing the directory at the same time, and then
\* the lookup may find anything
AlterOwnershipRead(t) ==
    /\ At(t, "AlterOwnership_205")
    /\ Holding
    /\ SameDirectory
    /\ \E res \in (IF catalog_lock # 0 THEN {"raise", "false", "go"}
                   ELSE IF entries[th[t].name] = NoNode THEN {"false"}
                   ELSE IF Untouched(th[t].name) THEN {"go"}
                   ELSE {"raise", "false", "go"}) :
           IF res = "go" THEN Jump(t, "AlterOwnership_210", "", Event("read", "GetEntryInternal"))
           ELSE Jump(t, "AlterOwnership_214", res, Event("read", "GetEntryInternal"))

\* lines 212-213
AlterOwnershipAddOwnership(t) ==
    /\ At(t, "AlterOwnership_212")
    /\ Holding
    /\ SameDirectory
    /\ Leave(t, "true", Event("call", "AddOwnership"))

(***************************************************************************)
(* The lock-level specification.                                           *)
(***************************************************************************)
\* the steps of a session inside a call
Proceed(t) ==
    \/ LockWrite(t) \/ LockSet(t) \/ UnlockSet(t) \/ UnlockWrite(t) \/ LeaveScope(t)
    \/ GetEntryFound(t) \/ GetEntryMissing(t) \/ GetEntryLeave(t)
    \/ CreateDefaultEntryNone(t) \/ CreateDefaultEntryUnlock(t) \/ CreateDefaultEntryAsk(t)
    \/ CreateDefaultEntryUnknown(t) \/ CreateDefaultEntryInsert(t) \/ CreateDefaultEntryLost(t)
    \/ CreateEntryAddObject(t) \/ CreateEntryMissing(t) \/ CreateEntryFound(t)
    \/ CreateEntryHasDefault(t) \/ CreateEntryDummy(t) \/ CreateEntryPublish(t)
    \/ AlterEntryRead(t) \/ AlterEntryDestination(t) \/ AlterEntryDropOld(t)
    \/ AlterEntryUnlockWriteForCreate(t) \/ AlterEntryCreateRaised(t) \/ AlterEntryLookup(t)
    \/ AlterEntryUpdate(t) \/ AlterEntryAlterObject(t)
    \/ DropDependenciesMissing(t) \/ DropDependenciesRefuse(t)
    \/ DropDependenciesDropObject(t) \/ DropEntryTombstone(t)
    \/ Unlink(t)
    \/ CreateDefaultEntriesNone(t) \/ CreateDefaultEntriesList(t)
    \/ CreateDefaultEntriesFound(t) \/ CreateDefaultEntriesMissing(t)
    \/ CreateDefaultEntriesAsk(t) \/ CreateDefaultEntriesInsert(t) \/ Iterate(t)
    \/ AlterOwnershipRead(t) \/ AlterOwnershipAddOwnership(t)

\* the directory of a set that has been in use: a name has no chain, the
\* materialised default entry alone, or a chain of published versions (the
\* versions themselves are left out: the heap stays empty)
InitLocks ==
    \E defaults \in BOOLEAN, created \in BOOLEAN :
        /\ created => defaults
        /\ entries \in [Names -> {NoNode} \cup {Versioned(n) : n \in Names}
                                        \cup {DefaultSlot(n) : n \in DefaultNames}]
        /\ \A n \in Names :
               /\ entries[n] \in {NoNode, Versioned(n), DefaultSlot(n)}
               /\ entries[n] = DefaultSlot(n) => defaults
        /\ heap = [i \in NodeIds |-> FreeNode]
        /\ created_all_entries = created
        /\ hasDefaults = defaults
        /\ txn = [t \in Txns |-> NoTxn]
        /\ clock = 0
        /\ writeLock = 0
        /\ catalog_lock = 0
        /\ th = [t \in Txns |-> IdleLock]
        /\ last = Did(0, Event("none", ""))
        /\ committed = [name \in Names |-> NoNode]
        /\ limits = [calls |-> MaxCalls]
        /\ idle = 0

NextLocks == \E t \in Txns : StartCall(t) \/ Proceed(t)

SpecLocks == InitLocks /\ [][NextLocks]_vars

\* fair scheduling: a session that can take a step inside its call again
\* and again takes it; a mutex that is free again and again is handed over
SpecLocksFair == SpecLocks /\ \A t \in Txns : SF_vars(Proceed(t))

(***************************************************************************)
(* Sanity of the model itself.                                             *)
(***************************************************************************)
TypeOK ==
    /\ entries \in [Names -> NodeIds \cup {NoNode}]
    /\ \A i \in NodeIds : heap[i].live \in BOOLEAN
    /\ writeLock \in Txns \cup {0}

\* every raw pointer the transactions keep points to a live, superseded node
NoDangling ==
    \A t \in Txns : \A i \in 1..Len(txn[t].undo) :
        /\ heap[txn[t].undo[i]].live
        /\ heap[txn[t].undo[i]].parent # NoNode

NoFault == last.res # "InternalException" \/ (last.op = "CreateEntry" /\ last.calls = <<>>)

(***************************************************************************)
(* Vocabulary of the properties.                                           *)
(***************************************************************************)
IsLocal(timestamp) == timestamp >= TRANSACTION_ID_START
IsCommitted(timestamp) == timestamp < TRANSACTION_ID_START

\* the head of the chain of `name` is a live version that a transaction other
\* than t published and has not committed
CreatedByOther(t, name) ==
    /\ entries[name] # NoNode
    /\ ~heap[entries[name]].deleted
    /\ IsLocal(heap[entries[name]].timestamp)
    /\ heap[entries[name]].timestamp # Tx(t).transaction_id

\* the step leaves the chains, the entries and the undo logs alone
NothingPublished == entries' = entries /\ heap' = heap /\ txn' = txn

\* a snapshot that starts now: no transaction has its id
NewSnapshot == [transaction_id |-> TRANSACTION_ID_START, start_time |-> clock, transaction |-> 0]

(***************************************************************************)
(* Snapshot isolation.                                                     *)
(***************************************************************************)
\* a step of somebody else leaves what the snapshot s gets for `name` alone
ViewKept(s, name) ==
    (Active(s) /\ last'.t # s) => GetEntryNow(Tx(s), name)' = GetEntryNow(Tx(s), name)

\* a snapshot that starts gets what the latest committed change left
ViewAtStart(s, name) ==
    (~Active(s) /\ Active(s)') => GetEntryNow(Tx(s), name)' = committed[name]

\* C1: a snapshot that started before a change committed keeps getting from
\* GetEntry what it got before, whatever commits later, and a snapshot that
\* starts after the commit gets what that change left (absent after a drop).
SnapshotIsolation ==
    [][\A s \in Txns, name \in Names : ViewKept(s, name) /\ ViewAtStart(s, name)]_vars

(***************************************************************************)
(* Write-write conflicts.                                                  *)
(***************************************************************************)
ConflictRaised == last'.res = "TransactionException" /\ NothingPublished

\* the step is a step of `op` on `name` by t
StepOf(op, t, name) == last'.op = op /\ last'.t = t /\ last'.name = name

\* C2: while the live head of a name is the uncommitted version of one
\* transaction, a CreateEntry (of a candidate that passes the validation) or
\* an AlterEntry on that name by another transaction raises a transaction
\* conflict and publishes nothing.
ConflictOnCreateAndAlter ==
    [][\A t \in Txns, name \in Names :
           CreatedByOther(t, name) =>
               /\ \A internal \in BOOLEAN, temporary \in BOOLEAN :
                      (/\ StepOf("CreateEntry", t, name)
                       /\ CreateValidation(name, internal, temporary) = ""
                       /\ CreateEntry(t, name, internal, temporary))
                      => ConflictRaised
               /\ \A newname \in Names \cup {""}, allow \in BOOLEAN :
                      (StepOf("AlterEntry", t, name) /\ AlterEntry(t, name, newname, allow))
                      => ConflictRaised]_vars

\* a CreateEntry / an AlterEntry has just met the uncommitted version of
\* another transaction
ConflictOnCreateReached ==
    /\ last.op = "CreateEntry" /\ last.res = "TransactionException"
    /\ CreatedByOther(last.t, last.name)

ConflictOnAlterReached ==
    /\ last.op = "AlterEntry" /\ last.res = "TransactionException"
    /\ CreatedByOther(last.t, last.name)

\* a DropEntry on `name` by t returns or raises with this step
DropReturns(t, name) ==
    last'.op = "DropEntry" /\ last'.t = t /\ last'.name = name /\ last'.res # "pending"

\* C3 as stated: while the live head of a name is the uncommitted version of
\* one transaction, a DropEntry on that name by another transaction raises a
\* transaction conflict.
DropAlwaysConflicts ==
    [][\A t \in Txns, name \in Names :
           (CreatedByOther(t, name) /\ DropReturns(t, name))
           => last'.res = "TransactionException"]_vars

\* C3, amended: while the live head of a name is the uncommitted version of
\* one transaction, a DropEntry on that name by another transaction never
\* succeeds and publishes nothing; it returns false when the name is absent
\* for the caller's snapshot, and DropEntryInternal, when the call gets that
\* far, raises a transaction conflict.
DropMeetsUncommittedCreate ==
    [][\A t \in Txns, name \in Names :
           (CreatedByOther(t, name) /\ StepOf("DropEntry", t, name)) =>
               /\ \A allow \in BOOLEAN :
                      (\/ DropEntry(t, name, allow)
                       \/ (DropEntryDefault(t) /\ th[t].name = name)
                       \/ (DropEntryRetry(t) /\ th[t].name = name))
                      => /\ NothingPublished
                         /\ last'.res # "true"
                         /\ GetEntryNow(Tx(t), name) = NoNode
                                => (last'.res = "false" \/ th'[t].pc = "get_retry")
               /\ (DropEntryLocked(t) /\ th[t].name = name) => ConflictRaised]_vars

\* a DropEntry has just returned false on a name another transaction created
\* and has not committed
DropFalseOnUncommittedCreate ==
    /\ last.op = "DropEntry" /\ last.res = "false"
    /\ CreatedByOther(last.t, last.name)

\* a DropEntry has just raised a conflict in DropEntryInternal
DropConflictReached ==
    /\ last.op = "DropEntry" /\ last.res = "TransactionException"
    /\ CreatedByOther(last.t, last.name)

(***************************************************************************)
(* The visibility rule.                                                    *)
(***************************************************************************)
\* a version is visible to a snapshot if the snapshot wrote it or it was
\* committed strictly before the snapshot started
Visible(transaction, timestamp) ==
    \/ timestamp = transaction.transaction_id
    \/ (IsCommitted(timestamp) /\ timestamp < transaction.start_time)

\* the first visible version on the way from the head to the older versions
FirstVisible(transaction, name) ==
    LET ch == Chain(name)
        seen == {i \in 1..Len(ch) : Visible(transaction, heap[ch[i]].timestamp)}
    IN IF seen = {} THEN NoNode ELSE ch[CHOOSE i \in seen : \A j \in seen : i <= j]

\* what the rule gives the snapshot for a name that has a chain
RuleGives(transaction, name) ==
    LET v == FirstVisible(transaction, name)
    IN IF heap[v].deleted THEN NoNode ELSE v

\* C4: for every snapshot and every chain there is a first visible version
\* on the way from the head to the older versions, and GetEntry returns that
\* version, or absent when it is a tombstone.
VisibilityRule ==
    /\ \A s \in Txns, name \in Names :
           (Active(s) /\ entries[name] # NoNode) =>
               /\ FirstVisible(Tx(s), name) # NoNode
               /\ GetEntryNow(Tx(s), name) = RuleGives(Tx(s), name)
    /\ (last.op = "GetEntry" /\ last.res = "ok" /\ entries[last.name] # NoNode)
           => last.entry = RuleGives(Tx(last.t), last.name)

\* a GetEntry has just walked past the head to an older, live version
WalkedPastHead ==
    /\ last.op = "GetEntry" /\ last.res = "ok"
    /\ last.entry # NoNode
    /\ entries[last.name] # last.entry

(***************************************************************************)
(* Publication.                                                            *)
(***************************************************************************)
\* the conflict rule in the words of the specification
SpecConflict(transaction, timestamp) ==
    \/ (IsLocal(timestamp) /\ timestamp # transaction.transaction_id)
    \/ (IsCommitted(timestamp) /\ timestamp > transaction.start_time)

\* the step makes a new version the head of the existing chain of `name`
PublishedOver(name) ==
    /\ entries[name] # NoNode
    /\ entries'[name] # NoNode
    /\ entries'[name] # entries[name]
    /\ heap'[entries'[name]].child = entries[name]

\* C5: CreateEntry, AlterEntry and DropEntry make a new version the head of
\* an existing chain only if the old head does not conflict with the caller,
\* and HasConflict is the rule: the timestamp is local and not the caller's
\* id, or it is committed and above the caller's start_time.
NoPublicationOverConflict ==
    [][/\ \A t \in Txns, e \in NodeIds :
              (Active(t) /\ heap[e].live) =>
                  (HasConflict(Tx(t), heap[e].timestamp) <=> SpecConflict(Tx(t), heap[e].timestamp))
       /\ \A name \in Names :
              (last'.op \in {"CreateEntry", "AlterEntry", "DropEntry"} /\ PublishedOver(name))
              => /\ ~SpecConflict(Tx(last'.t), heap[entries[name]].timestamp)
                 /\ heap'[entries'[name]].timestamp = Tx(last'.t).transaction_id]_vars

\* an operation has just published over a version another transaction committed
PublishedOverCommitted ==
    /\ last.op \in {"CreateEntry", "AlterEntry", "DropEntry"} /\ last.res = "true"
    /\ last.entry # NoNode /\ heap[last.entry].live
    /\ heap[last.entry].child # NoNode
    /\ heap[heap[last.entry].child].type # "INVALID"
    /\ heap[heap[last.entry].child].timestamp \in 1..(TRANSACTION_ID_START - 1)

(***************************************************************************)
(* Dirty reads.                                                            *)
(***************************************************************************)
\* the entry is not the uncommitted version of a transaction other than s
OwnOrCommitted(s, e) ==
    IsLocal(heap[e].timestamp) => heap[e].timestamp = Tx(s).transaction_id

\* the chain of `name` holds nothing but versions of the uncommitted t1 on
\* top of the placeholder tombstone
FreshlyCreatedBy(t1, name) ==
    LET ch == Chain(name) IN
    /\ Len(ch) >= 2
    /\ heap[ch[Len(ch)]].type = "INVALID"
    /\ \A i \in 1..(Len(ch) - 1) : heap[ch[i]].timestamp = Tx(t1).transaction_id

\* C6: neither GetEntry nor Scan yields a snapshot the uncommitted version of
\* another transaction, and a name another uncommitted transaction has
\* freshly created is absent for the snapshot.
NoDirtyReads ==
    /\ \A s \in Txns :
           Active(s) =>
               /\ \A name \in Names :
                      LET e == GetEntryNow(Tx(s), name)
                      IN (e # NoNode /\ heap[e].live) => OwnOrCommitted(s, e)
               /\ \A e \in ScanVisits(Cat, Tx(s)) : OwnOrCommitted(s, e)
               /\ \A name \in Names, t1 \in Txns \ {s} :
                      FreshlyCreatedBy(t1, name) =>
                          /\ GetEntryNow(Tx(s), name) = NoNode
                          /\ \A e \in ScanVisits(Cat, Tx(s)) : heap[e].name # name
    /\ (last.op = "GetEntry" /\ last.entry # NoNode) => OwnOrCommitted(last.t, last.entry)
    /\ last.op = "Scan" => \A e \in last.visited : OwnOrCommitted(last.t, e)

\* a Scan has just passed over a name that another transaction has freshly
\* created and not committed
ScanSkippedUncommitted ==
    /\ last.op = "Scan" /\ last.res = "ok"
    /\ \E name \in Names, t1 \in Txns \ {last.t} :
           /\ FreshlyCreatedBy(t1, name)
           /\ ~heap[entries[name]].deleted
           /\ entries[name] \notin last.visited

(***************************************************************************)
(* CreateEntry on an existing chain.                                       *)
(***************************************************************************)
\* C7: when the head of a chain is live and does not conflict with the
\* caller, CreateEntry (of a candidate that passes the validation) returns
\* false, publishes nothing, and GetEntry still returns the head.
CreateOnLiveName ==
    [][\A t \in Txns, name \in Names, internal \in BOOLEAN, temporary \in BOOLEAN :
           (/\ StepOf("CreateEntry", t, name)
            /\ CreateValidation(name, internal, temporary) = ""
            /\ entries[name] # NoNode
            /\ ~heap[entries[name]].deleted
            /\ ~SpecConflict(Tx(t), heap[entries[name]].timestamp)
            /\ CreateEntry(t, name, internal, temporary))
           => /\ last'.res = "false"
              /\ NothingPublished
              /\ GetEntryNow(Tx(t), name) = entries[name]
              /\ GetEntryNow(Tx(t), name)' = entries[name]]_vars

\* a CreateEntry has just returned false on a name its own transaction created
CreateFalseOnOwnEntry ==
    /\ last.op = "CreateEntry" /\ last.res = "false"
    /\ entries[last.name] # NoNode
    /\ ~heap[entries[last.name]].deleted
    /\ heap[entries[last.name]].timestamp = Tx(last.t).transaction_id

\* C8: a CreateEntry (of a candidate that passes the validation) on a chain
\* whose head is the caller's own tombstone, or a committed tombstone visible
\* to the caller, returns true, and GetEntry then returns the new entry.
ChainRevival ==
    [][\A t \in Txns, name \in Names, internal \in BOOLEAN, temporary \in BOOLEAN :
           (/\ StepOf("CreateEntry", t, name)
            /\ CreateValidation(name, internal, temporary) = ""
            /\ entries[name] # NoNode
            /\ heap[entries[name]].deleted
            /\ Visible(Tx(t), heap[entries[name]].timestamp)
            /\ CreateEntry(t, name, internal, temporary))
           => /\ last'.res = "true"
              /\ last'.entry # NoNode
              /\ entries'[name] = last'.entry
              /\ ~heap'[last'.entry].deleted
              /\ GetEntryNow(Tx(t), name)' = last'.entry]_vars

\* one transaction has created a name, dropped it and created it again
RevivedAfterOwnDrop ==
    LET ch == Chain(last.name) IN
    /\ last.op = "CreateEntry" /\ last.res = "true"
    /\ Len(ch) >= 3
    /\ ch[1] = last.entry
    /\ heap[ch[2]].deleted /\ heap[ch[2]].timestamp = Tx(last.t).transaction_id
    /\ ~heap[ch[3]].deleted /\ heap[ch[3]].timestamp = Tx(last.t).transaction_id

\* a name has been created again over a committed tombstone
RevivedAfterCommittedDrop ==
    LET ch == Chain(last.name) IN
    /\ last.op = "CreateEntry" /\ last.res = "true"
    /\ Len(ch) >= 2
    /\ ch[1] = last.entry
    /\ heap[ch[2]].deleted /\ heap[ch[2]].type = "DELETED_ENTRY"
    /\ IsCommitted(heap[ch[2]].timestamp)

(***************************************************************************)
(* Renames.                                                                *)
(***************************************************************************)
\* the latest versions t published say that `a` was renamed to `b`
RenamedTo(t, a, b) ==
    /\ a # b
    /\ entries[a] # NoNode /\ entries[b] # NoNode
    /\ heap[entries[a]].type = "RENAMED_ENTRY" /\ heap[entries[a]].deleted
    /\ heap[entries[a]].timestamp = Tx(t).transaction_id
    /\ ~heap[entries[b]].deleted
    /\ heap[entries[b]].timestamp = Tx(t).transaction_id

\* the AlterEntry of t that renames a to b returns true with this step, and
\* t then finds the renamed entry under the new name alone
RenameDone(t, a, b) ==
    (th[t].name = a /\ th[t].dest = b /\ last'.res = "true" /\ AlterRelock(t)) =>
        /\ last'.entry # NoNode
        /\ GetEntryNow(Tx(t), a)' = NoNode
        /\ GetEntryNow(Tx(t), b)' = last'.entry

\* t commits its rename of a to b, and a snapshot that starts then finds the
\* renamed entry under the new name alone
RenameCommitted(t, a, b) ==
    (RenamedTo(t, a, b) /\ Commit(t)) =>
        /\ GetEntryNow(NewSnapshot, a)' = NoNode
        /\ GetEntryNow(NewSnapshot, b)' = entries[b]

\* C9 as stated: after a rename of a to b the transaction finds a absent and
\* the renamed entry under b; once it commits, a snapshot that starts finds
\* the same, and every snapshot that started before the commit finds the old
\* entry under a and b absent.
RenameRoundTrip ==
    [][\A t \in Txns, a \in Names, b \in Names :
           /\ RenameDone(t, a, b)
           /\ RenameCommitted(t, a, b)
           /\ (RenamedTo(t, a, b) /\ Commit(t)) =>
                  \A s \in Txns \ {t} :
                      Active(s) => /\ GetEntryNow(Tx(s), a)' # NoNode
                                   /\ GetEntryNow(Tx(s), b)' = NoNode]_vars

\* the step is a step of the AlterEntry of t that renames a to b
RenameStep(t, a, b) ==
    /\ a # b
    /\ StepOf("AlterEntry", t, a)
    /\ th[t].dest = b \/ th'[t].dest = b

\* what the snapshot s gets for `name` is left alone by the step, and is a
\* version of its own or one committed before it started
OldViewKept(s, name) ==
    LET e == GetEntryNow(Tx(s), name)' IN
    /\ e = GetEntryNow(Tx(s), name)
    /\ (e # NoNode /\ heap'[e].live) => Visible(Tx(s), heap'[e].timestamp)

\* C9, amended: after a rename of a to b the transaction finds a absent and
\* the renamed entry under b; once it commits, a snapshot that starts finds
\* the same, and every snapshot that started before the commit keeps finding
\* under a and under b what it found before the rename: no step of the
\* rename and not the commit changes it, and it is a version of the
\* snapshot's own or one committed before the snapshot started.
RenameRoundTripForOthers ==
    [][\A t \in Txns, a \in Names, b \in Names :
           /\ RenameDone(t, a, b)
           /\ RenameCommitted(t, a, b)
           /\ (RenameStep(t, a, b) \/ (RenamedTo(t, a, b) /\ Commit(t))) =>
                  \A s \in Txns \ {t} :
                      Active(s) => OldViewKept(s, a) /\ OldViewKept(s, b)]_vars

\* a rename has been committed while an older snapshot is still live
RenameCommittedBesideSnapshot ==
    /\ last.op = "Commit"
    /\ \E a \in Names, b \in Names :
           /\ a # b
           /\ entries[a] # NoNode /\ entries[b] # NoNode
           /\ heap[entries[a]].type = "RENAMED_ENTRY" /\ heap[entries[a]].deleted
           /\ heap[entries[a]].timestamp = txn[last.t].commit_id
           /\ ~heap[entries[b]].deleted
           /\ heap[entries[b]].timestamp = txn[last.t].commit_id
           /\ heap[heap[entries[b]].child].type = "RENAMED_ENTRY"
    /\ \E s \in Txns : Active(s) /\ txn[s].start_time < txn[last.t].commit_id

\* AlterEntry(t, name, ...) gets as far as the entry's own AlterEntry
SourceAlterable(t, name, allow_internal) ==
    LET g == GetEntryInternal(Cat, Tx(t), name) IN
    /\ g.res = "ok"
    /\ g.entry # NoNode
    /\ allow_internal \/ ~heap[g.entry].internal

\* the step leaves the chain of `name` as it is
ChainKept(name) ==
    /\ Chain(name)' = Chain(name)
    /\ \A i \in 1..Len(Chain(name)) : heap'[Chain(name)[i]] = heap[Chain(name)[i]]

\* C10: when GetEntry would return the caller an entry for the destination
\* of a rename, AlterEntry raises the rename-target-exists error, leaves the
\* chain of the source as it is, and GetEntry still returns the source.
RenameCollision ==
    [][\A t \in Txns, a \in Names, b \in Names, allow \in BOOLEAN :
           (/\ a # b
            /\ StepOf("AlterEntry", t, a)
            /\ SourceAlterable(t, a, allow)
            /\ GetEntryNow(Tx(t), b) # NoNode
            /\ AlterEntry(t, a, b, allow))
           => /\ last'.res = "CatalogException(rename)"
              /\ ChainKept(a)
              /\ GetEntryNow(Tx(t), a)' = GetEntryNow(Tx(t), a)]_vars

(***************************************************************************)
(* Undo.                                                                   *)
(***************************************************************************)
\* t has created the chain of `name`: the dummy root is in its undo log
CreatedChain(t, name) ==
    \E i \in 1..Len(txn[t].undo) :
        heap[txn[t].undo[i]].type = "INVALID" /\ heap[txn[t].undo[i]].name = name

\* C11: when the CreateEntry that started the chain of a name is undone, the
\* directory has no chain for the name any more, the entries of the chain are
\* gone, and GetEntry finds the name absent for every snapshot.
UndoRoundTrip ==
    [][\A t \in Txns, name \in Names :
           (last'.op = "Rollback" /\ last'.t = t /\ CreatedChain(t, name)) =>
               /\ entries'[name] = NoNode
               /\ \A i \in 1..Len(Chain(name)) : ~heap'[Chain(name)[i]].live
               /\ \A s \in Txns : Active(s)' => GetEntryNow(Tx(s), name)' = NoNode
               /\ GetEntryNow(NewSnapshot, name)' = NoNode]_vars

\* a transaction has created a name that had no chain, and nothing else, and
\* has been rolled back
CreateUndone ==
    /\ last.op = "Rollback"
    /\ Len(last.undone) = 1
    /\ last.undone[1].type = "INVALID"
    /\ entries[last.undone[1].name] = NoNode

(***************************************************************************)
(* Default entries.                                                        *)
(***************************************************************************)
\* the step materializes the default entry of d
DefaultInserted(d) == ~heap[DefaultSlot(d)].live /\ heap'[DefaultSlot(d)].live

\* the calls that materialize default entries
Materializers == {"GetEntry", "CreateEntry", "Scan", "SimilarEntry"}

\* C12: however GetEntry, CreateEntry, Scan and SimilarEntry interleave, no
\* call raises the duplicate-name violation of the map; the default entry of
\* a name is inserted only while the name has no chain, and is then the whole
\* chain; these calls never take the chain of a default name away again; and
\* once all default entries have been created, Scan and SimilarEntry add
\* nothing.
DefaultIdempotence ==
    [][/\ last'.res = "InternalException" => (last'.op = "CreateEntry" /\ last'.calls = <<>>)
       /\ \A d \in DefaultNames :
              /\ DefaultInserted(d) =>
                     /\ entries[d] = NoNode
                     /\ Chain(d)' = <<DefaultSlot(d)>>
                     /\ \A name \in Names \ {d} : Chain(name)' = Chain(name)
              /\ (entries[d] # NoNode /\ last'.op \in Materializers) =>
                     /\ entries'[d] # NoNode
                     /\ Chain(d)'[Len(Chain(d)')] = Chain(d)[Len(Chain(d))]
       /\ (created_all_entries /\ last'.op \in {"Scan", "SimilarEntry"}) =>
              (entries' = entries /\ heap' = heap)]_vars

\* two sessions asked the generator for the same name at the same time: one
\* has inserted the default entry, the other finds the chain there
LostTheRace ==
    \E t \in Txns :
        /\ th[t].pc = "get_retry"
        /\ th[t].name \in DefaultNames
        /\ entries[th[t].name] = DefaultSlot(th[t].name)

(***************************************************************************)
(* Names that are not there.                                               *)
(***************************************************************************)
\* the call returns `res` and leaves the directory, the undo logs and the
\* DependencyManager alone
ReturnsQuietly(res) == last'.res = res /\ last'.calls = <<>> /\ NothingPublished

\* C13: in a set without a default generator, on a name that has no chain,
\* GetEntry returns absent and AlterEntry and DropEntry return false; none of
\* them raises, and the directory, the undo logs and the DependencyManager
\* are left as they are.
NotFoundNeverThrows ==
    [][\A t \in Txns, name \in Names :
           (~hasDefaults /\ entries[name] = NoNode) =>
               /\ (StepOf("GetEntry", t, name) /\ GetEntry(t, name))
                     => (ReturnsQuietly("ok") /\ last'.entry = NoNode)
               /\ \A newname \in Names \cup {""}, allow \in BOOLEAN :
                      (StepOf("AlterEntry", t, name) /\ AlterEntry(t, name, newname, allow))
                      => ReturnsQuietly("false")
               /\ \A allow \in BOOLEAN :
                      (StepOf("DropEntry", t, name) /\ DropEntry(t, name, allow))
                      => ReturnsQuietly("false")]_vars

\* an AlterEntry and a DropEntry have just returned false on a name that has
\* no chain, in a set without a default generator
AlterNotFound ==
    /\ last.op = "AlterEntry" /\ last.res = "false"
    /\ ~hasDefaults /\ entries[last.name] = NoNode

DropNotFound ==
    /\ last.op = "DropEntry" /\ last.res = "false"
    /\ ~hasDefaults /\ entries[last.name] = NoNode

(***************************************************************************)
(* The version chains.                                                     *)
(***************************************************************************)
\* the version `older` was published before the version `newer`, as far as
\* their timestamps tell: it is committed, and `newer` is not or was
\* committed no earlier; two versions with the same timestamp are versions of
\* one transaction
Older(older, newer) ==
    \/ IsCommitted(heap[older].timestamp) /\ IsLocal(heap[newer].timestamp)
    \/ /\ IsCommitted(heap[older].timestamp) /\ IsCommitted(heap[newer].timestamp)
       /\ heap[older].timestamp <= heap[newer].timestamp
    \/ heap[older].timestamp = heap[newer].timestamp

\* the versions a transaction published one over the other were pushed to its
\* undo log in that order
UndoLogOrdered(t) ==
    \A j \in 1..Len(txn[t].undo), k \in 1..Len(txn[t].undo) :
        txn[t].undo[k] = heap[txn[t].undo[j]].parent => j < k

WellFormedChain(name) ==
    LET ch == Chain(name) IN
    /\ heap[ch[1]].parent = NoNode
    /\ \A i \in 1..Len(ch) : heap[ch[i]].live /\ heap[ch[i]].name = name
    /\ \A i \in 1..Len(ch), j \in 1..Len(ch) : i # j => ch[i] # ch[j]
    /\ \A i \in 2..Len(ch) : heap[ch[i]].parent = ch[i - 1] /\ heap[ch[i - 1]].child = ch[i]
    /\ \A i \in 2..Len(ch) : Older(ch[i], ch[i - 1])

\* C14: every name of the directory maps to one head, which has no parent;
\* every other entry of the chain has one parent and is that parent's child;
\* the walk along the child links passes every entry of the chain once, from
\* the newest to the oldest, and ends; and no entry exists outside the chains.
VersionChainInvariant ==
    /\ \A name \in Names : entries[name] # NoNode => WellFormedChain(name)
    /\ \A e \in NodeIds : heap[e].live => \E i \in 1..Len(Chain(heap[e].name)) :
                                               Chain(heap[e].name)[i] = e
    /\ \A t \in Txns : UndoLogOrdered(t)

\* the garbage collection has just taken an old version out of a chain that
\* a later transaction has written to
ChainSurvivedCleanup ==
    /\ last.op = "Cleanup"
    /\ \E name \in Names :
           /\ \E i \in 1..Len(last.undone) :
                  last.undone[i].name = name /\ last.undone[i].type # "INVALID"
           /\ Len(Chain(name)) >= 2
           /\ IsLocal(heap[entries[name]].timestamp)

(***************************************************************************)
(* Rollback.                                                               *)
(***************************************************************************)
\* the step is the rollback of t
RollbackOf(t) == last'.op = "Rollback" /\ last'.t = t

\* the entries of the chain are as they were, up to the link to the version
\* that was above them
EntriesKept(ch) ==
    \A i \in 1..Len(ch) : heap'[ch[i]] = [heap[ch[i]] EXCEPT !.parent = heap'[ch[i]].parent]

\* C15 as stated: the rollback of a transaction restores every chain the
\* transaction wrote to to the sequence of entries it had before the
\* transaction's first call on it, and a name that had no chain then has
\* none afterwards.
FullRollback ==
    [][\A t \in Txns, name \in Names :
           RollbackOf(t) =>
               /\ txn[t].origin[name].touched =>
                      /\ Chain(name)' = txn[t].origin[name].chain
                      /\ EntriesKept(Chain(name)')
               /\ (CreatedChain(t, name) /\ ~txn[t].origin[name].touched) =>
                      Chain(name)' = <<>>]_vars

\* the chain without the entries that exist no more after the step
StillThere(ch) == SelectSeq(ch, LAMBDA e : heap'[e].live)

\* C15, amended: the rollback of a transaction restores every chain the
\* transaction wrote to to the sequence of entries it had before the
\* transaction's first call on it, less the entries that CleanupEntry has
\* removed in the meantime; the entries are as they were, and a name that had
\* no chain then has none afterwards.
FullRollbackAfterCleanup ==
    [][\A t \in Txns, name \in Names :
           RollbackOf(t) =>
               /\ txn[t].origin[name].touched =>
                      /\ Chain(name)' = StillThere(txn[t].origin[name].chain)
                      /\ Chain(name)' # <<>>
                      /\ Chain(name)'[1] = txn[t].origin[name].chain[1]
                      /\ EntriesKept(Chain(name)')
               /\ (CreatedChain(t, name) /\ ~txn[t].origin[name].touched) =>
                      Chain(name)' = <<>>
               /\ (~CreatedChain(t, name) /\ ~txn[t].origin[name].touched) =>
                      (Chain(name)' = Chain(name) /\ EntriesKept(Chain(name)))]_vars

\* a transaction that renamed an entry, three versions published, has been
\* rolled back, and the entry is back under its name
RolledBackRename ==
    /\ last.op = "Rollback"
    /\ Len(last.undone) >= 3
    /\ \E i \in 1..Len(last.undone) :
           /\ last.undone[i].type = "RENAMED_ENTRY"
           /\ \E name \in Names \ {last.undone[i].name} :
                  /\ entries[name] # NoNode
                  /\ ~heap[entries[name]].deleted

(***************************************************************************)
(* One uncommitted writer per chain.                                       *)
(***************************************************************************)
\* the timestamps of the versions of `name`, newest first
Timestamps(name) == [i \in 1..Len(Chain(name)) |-> heap[Chain(name)[i]].timestamp]

\* C16: in every reachable state the versions of a chain with a
\* transaction-local timestamp carry one transaction id and are a run that
\* starts at the head: whatever is above an uncommitted version has its
\* timestamp, so no committed version and no version of another transaction
\* is above it.
SingleUncommittedWriter ==
    \A name \in Names :
        LET ts == Timestamps(name) IN
        \A i \in 1..Len(ts) :
            IsLocal(ts[i]) => \A j \in 1..i : ts[j] = ts[i]

\* a transaction has put a second uncommitted version over its first, above
\* committed history
TwoUncommittedAtHead ==
    \E name \in Names :
        LET ts == Timestamps(name) IN
        /\ Len(ts) >= 3
        /\ IsLocal(ts[1])
        /\ IsLocal(ts[2])
        /\ ~IsLocal(ts[3])
        /\ heap[Chain(name)[3]].type # "INVALID"

(***************************************************************************)
(* Writers act on what readers see.                                        *)
(***************************************************************************)
\* the snapshots of the transactions in progress, and the next one to start
Snapshots == {Tx(t) : t \in {u \in Txns : Active(u)}} \cup {NewSnapshot}

\* the head of every chain that does not conflict with a snapshot is what the
\* visibility rule resolves to for the snapshot
HeadIsSeen ==
    \A s \in Snapshots, name \in Names :
        (/\ entries[name] # NoNode
         /\ ~HasConflict(s, heap[entries[name]].timestamp))
            => GetEntryForTransaction(Cat, s, entries[name]) = entries[name]

\* C17: for every snapshot and chain, when HasConflict is false of the head's
\* timestamp the visibility rule resolves to the head itself; so the version
\* that a publication of CreateEntry, AlterEntry or DropEntry supersedes is
\* the version GetEntry resolves to for the caller.
WritersActOnWhatReadersSee ==
    /\ []HeadIsSeen
    /\ [][\A name \in Names :
              PublishedOver(name) =>
                  /\ ~HasConflict(Tx(last'.t), heap[entries[name]].timestamp)
                  /\ GetEntryForTransaction(Cat, Tx(last'.t), entries[name])
                        = heap'[entries'[name]].child]_vars

\* a transaction has superseded a committed head while another transaction,
\* for which that head is no conflict either, is in progress
SupersededSharedHead ==
    \E t \in Txns, u \in Txns, name \in Names :
        /\ t # u
        /\ Active(t)
        /\ Active(u)
        /\ last.t = t
        /\ last.name = name
        /\ last.res = "true"
        /\ last.op \in {"AlterEntry", "DropEntry"}
        /\ entries[name] # NoNode
        /\ heap[entries[name]].timestamp = Tx(t).transaction_id
        /\ HasChild(Cat, entries[name])
        /\ heap[heap[entries[name]].child].timestamp > 0
        /\ ~HasConflict(Tx(u), heap[heap[entries[name]].child].timestamp)

(***************************************************************************)
(* A rename that raises.                                                   *)
(***************************************************************************)
\* session t is inside the rename of `name`, past the tombstone of line 261
InRename(t, name) ==
    /\ th[t].op = "AlterEntry"
    /\ th[t].name = name
    /\ th[t].dest # ""

\* C18: when AlterEntry with a name change raises an error, at its start or
\* after the locks were released, the chain of the source name is what it was
\* before the call: its head is the entry the call found, and no RENAMED
\* tombstone is on it.
RenameAllOrNothing ==
    [][\A t \in Txns, name \in Names :
           (StepOf("AlterEntry", t, name) /\ ~Quiet') =>
               /\ InRename(t, name) =>
                      /\ entries'[name] = th[t].entry
                      /\ heap'[entries'[name]].type # "RENAMED_ENTRY"
               /\ \A newname \in Names \ {name}, allow \in BOOLEAN :
                      (Ready(t) /\ AlterEntry(t, name, newname, allow))
                          => (Chain(name)' = Chain(name) /\ EntriesKept(Chain(name)))]_vars

(***************************************************************************)
(* Registration in the undo log.                                           *)
(***************************************************************************)
\* the names under which the step has made a version of its own the head;
\* a default entry that CreateDefaultEntry materialises is not one
PublishedNames ==
    {name \in Names : entries'[name] \notin {NoNode, entries[name], DefaultSlot(name)}}

\* C19: a step of CreateEntry, DropEntry or AlterEntry by a transaction that
\* publishes a new head gives it the transaction's id as timestamp and
\* appends to the transaction's undo log the new head's child and nothing
\* else, and the child is the head of just before (the dummy root when the
\* chain is new); a step that publishes nothing leaves the undo log as it is,
\* and no step touches the undo log of another transaction.
UndoLogRegistration ==
    [][\A t \in Txns :
           (last'.t = t /\ last'.op \in {"CreateEntry", "DropEntry", "AlterEntry"}) =>
               /\ Cardinality(PublishedNames) <= 1
               /\ \A name \in PublishedNames :
                      LET head == entries'[name] IN
                      /\ heap'[head].timestamp = Tx(t).transaction_id
                      /\ txn'[t].undo = Append(txn[t].undo, heap'[head].child)
                      /\ entries[name] # NoNode => heap'[head].child = entries[name]
                      /\ entries[name] = NoNode => heap'[heap'[head].child].type = "INVALID"
               /\ PublishedNames = {} => txn'[t].undo = txn[t].undo
               /\ \A u \in Txns \ {t} : txn'[u].undo = txn[u].undo]_vars

\* a rename has returned: the three versions it published are the parents of
\* the last three entries of the undo log
RenameRegistered ==
    \E t \in Txns :
        LET undo == txn[t].undo
            n == Len(undo)
        IN
        /\ last.op = "AlterEntry"
        /\ last.t = t
        /\ last.res = "true"
        /\ n >= 3
        /\ heap[heap[undo[n]].parent].name # last.name
        /\ heap[heap[undo[n - 1]].parent].type = "RENAMED_ENTRY"
        /\ heap[heap[undo[n - 2]].parent].type = "RENAMED_ENTRY"
        /\ heap[heap[undo[n - 2]].parent].name = last.name

(***************************************************************************)
(* A committed drop.                                                       *)
(***************************************************************************)
\* the head of `name` is the tombstone of a DropEntry that has committed:
\* nothing has been published under the name since
DropCommitted(name) ==
    /\ entries[name] # NoNode
    /\ heap[entries[name]].type = "DELETED_ENTRY"
    /\ heap[entries[name]].deleted
    /\ IsCommitted(heap[entries[name]].timestamp)

\* the step publishes a version under `name`
PublishedUnder(name) == entries'[name] \notin {NoNode, entries[name]}

\* C20: once a DropEntry of a name has committed, and as long as no version
\* is published under the name, GetEntry returns absent for every snapshot
\* that started after the commit and for the next one to start, whatever the
\* step (a cleanup included) and whether or not the default generator knows
\* the name.
CommittedDropStaysDropped ==
    [][\A name \in Names :
           (DropCommitted(name) /\ ~PublishedUnder(name)) =>
               /\ GetEntryNow(NewSnapshot, name)' = NoNode
               /\ \A s \in Txns :
                      (Active(s)' /\ txn'[s].start_time > heap[entries[name]].timestamp)
                          => GetEntryNow(Tx(s), name)' = NoNode]_vars

(***************************************************************************)
(* Garbage collection of the undo log of a committed transaction.          *)
(***************************************************************************)
\* c2 is c without `node`: the parent of the node is linked to its child, a
\* tombstone that is left alone at the head of the chain goes with it and
\* takes the name out of the directory, and nothing else differs
CleanupRemovesJust(c, c2, node) ==
    LET parent == c.heap[node].parent
        child == c.heap[node].child
        name == c.heap[node].name
        drop == c.heap[parent].deleted /\ child = NoNode /\ c.heap[parent].parent = NoNode
        gone == IF drop THEN {node, parent} ELSE {node}
    IN
    /\ c.heap[node].live
    /\ parent # NoNode
    /\ c2.fault = ""
    /\ \A i \in gone : ~c2.heap[i].live
    /\ ~drop => c2.heap[parent] = [c.heap[parent] EXCEPT !.child = child]
    /\ child # NoNode => c2.heap[child] = [c.heap[child] EXCEPT !.parent = parent]
    /\ \A i \in NodeIds \ (gone \cup {parent, child}) : c2.heap[i] = c.heap[i]
    /\ drop => c.entries[name] = parent
    /\ c2.entries = IF drop THEN [c.entries EXCEPT ![name] = NoNode] ELSE c.entries

\* every CleanupEntry call of a cleanup of `undo`, one after the other
RECURSIVE CleanupsRemoveJust(_, _)
CleanupsRemoveJust(c, undo) ==
    \/ undo = <<>>
    \/ /\ CleanupRemovesJust(c, CleanupEntry(c, Head(undo)), Head(undo))
       /\ CleanupsRemoveJust(CleanupEntry(c, Head(undo)), Tail(undo))

\* C21: each CleanupEntry(node) of a cleanup removes exactly the node from
\* its chain and links the parent of the node to its child; a parent that is
\* then a tombstone without child and without parent is removed as well and
\* the name leaves the directory; no other node and no other chain changes.
CleanupUnlinksOneVersion ==
    [][\A t \in Txns :
           StepOf("Cleanup", t, "") =>
               /\ CleanupsRemoveJust(Cat, txn[t].undo)
               /\ Cat' = CleanupAll(Cat, txn[t].undo)]_vars

\* a cleanup has collected a committed drop (the name is gone) and the dummy
\* root of a chain that is still there
CleanedDropAndCreate ==
    /\ last.op = "Cleanup"
    /\ \E i \in 1..Len(last.undone) :
           /\ last.undone[i].type = "TABLE_ENTRY"
           /\ entries[last.undone[i].name] = NoNode
    /\ \E i \in 1..Len(last.undone) :
           /\ last.undone[i].type = "INVALID"
           /\ entries[last.undone[i].name] # NoNode

(***************************************************************************)
(* The chains when no transaction is left.                                 *)
(***************************************************************************)
\* every transaction that began has rolled back, or has committed and its
\* undo log has been cleaned up
Quiescent ==
    /\ \A t \in Txns : txn[t].status \in {"none", "aborted", "cleaned"}
    /\ \E t \in Txns : txn[t].status # "none"

\* C22: when every transaction has committed or rolled back, and Undo has
\* been applied to the undo log of each transaction that rolled back and
\* CleanupEntry to the undo log of each transaction that committed, every name
\* of the directory has a chain of exactly one version, and the version is
\* not a tombstone.
ChainsCollectedAtQuiescence ==
    Quiescent =>
        \A name \in Names :
            entries[name] # NoNode =>
                /\ ~HasChild(Cat, entries[name])
                /\ ~heap[entries[name]].deleted

(***************************************************************************)
(* The calls to the DependencyManager.                                     *)
(***************************************************************************)
\* the call returns false or raises a conflict
Failed(res) == res \in {"false", "TransactionException"}

\* C23: a CreateEntry that returns false or raises a conflict, and a
\* DropEntry that returns false or raises a conflict, have made no mutating
\* call (AddObject, DropObject) to the DependencyManager.
FailedCallsLeaveDependenciesAlone ==
    [][\A t \in Txns, name \in Names :
           ( /\ StepOf("CreateEntry", t, name) \/ StepOf("DropEntry", t, name)
             /\ Failed(last'.res) )
               => last'.calls = <<>>]_vars

(***************************************************************************)
(* AlterEntry and the DependencyManager.                                   *)
(***************************************************************************)
\* the name under which the AlterEntry step of t publishes the altered entry
AlteredName(t, name) == IF th[t].pc = "alter_relock" THEN th[t].dest ELSE name

\* the latest DependencyManager call of `calls` is `call`
CalledLast(calls, call) == calls # <<>> /\ calls[Len(calls)] = call

\* when the step ends, the version that t published under `name` is the head
\* of the chain and the version it superseded is the latest entry of t's undo
\* log
PublishedAndPushed(t, name) ==
    LET head == entries'[name] IN
    /\ head # NoNode
    /\ head # entries[name]
    /\ heap'[head].timestamp = Tx(t).transaction_id
    /\ ~heap'[head].deleted
    /\ Len(txn'[t].undo) = Len(txn[t].undo) + 1
    /\ txn'[t].undo[Len(txn'[t].undo)] = heap'[head].child

Resolved(t, name, allow_internal) ==
    LET g == GetEntryInternal(Cat, Tx(t), name) IN
    /\ g.res = "ok"
    /\ g.entry # NoNode
    /\ allow_internal \/ ~heap[g.entry].internal

\* C26: when the object's own AlterEntry returns no replacement, AlterEntry
\* returns true, and the directory, every chain, every undo log and the
\* DependencyManager are as they were before the call.
DeclinedAlterIsNoOp ==
    [][\A t \in Txns, name \in Names, allow_internal \in BOOLEAN :
           ( /\ StepOf("AlterEntry", t, name)
             /\ Resolved(t, name, allow_internal)
             /\ AlterEntry(t, name, "", allow_internal) ) =>
               /\ last'.res = "true"
               /\ last'.calls = <<>>
               /\ UNCHANGED <<entries, heap, txn, writeLock, catalog_lock>>]_vars

\* a declined alter of an entry that the caller sees has returned
DeclinedAlter ==
    /\ last.op = "AlterEntry"
    /\ last.res = "true"
    /\ last.entry = NoNode
    /\ last.calls = <<>>
    /\ Active(last.t)
    /\ GetEntryInternal(Cat, Tx(last.t), last.name).res = "ok"
    /\ GetEntryInternal(Cat, Tx(last.t), last.name).entry # NoNode

(***************************************************************************)
(* Internal objects.                                                       *)
(***************************************************************************)
\* the step is an AlterEntry(t, name, ...) whose alter specification does not
\* allow internal alters, and the object it finds is internal
AlterOfProtected(t, name) ==
    LET g == GetEntryInternal(Cat, Tx(t), name) IN
    /\ g.res = "ok"
    /\ g.entry # NoNode
    /\ heap[g.entry].internal
    /\ \E newname \in Names \cup {""} : AlterEntry(t, name, newname, FALSE)

\* the step is the one of a DropEntry(t, name, ..., allow_drop_internal =
\* false) in which the GetEntry of DropDependencies answers, and what it
\* answers is an internal object
DropOfProtected(t, name) ==
    /\ \/ DropEntry(t, name, FALSE)
       \/ /\ th[t].op = "DropEntry"
          /\ th[t].pc \in {"get_default", "get_retry"}
          /\ th[t].name = name
          /\ ~th[t].internal
    /\ th'[t].pc \notin {"get_default", "get_retry"}
    /\ entries'[name] # NoNode
    /\ LET entry == GetEntryOfChain(Cat', Tx(t), name) IN
           entry # NoNode /\ heap'[entry].internal

\* C27: AlterEntry on an internal object without allow_internal, and
\* DropEntry on an internal object with allow_drop_internal false, raise a
\* catalog error; a call that raises it publishes no version, pushes nothing
\* to an undo log and makes no DependencyManager call.
InternalObjectsProtected ==
    [][\A t \in Txns, name \in Names :
           /\ ( /\ StepOf("AlterEntry", t, name)
                /\ AlterOfProtected(t, name) ) => last'.res = "CatalogException(internal)"
           /\ ( /\ StepOf("DropEntry", t, name)
                /\ DropOfProtected(t, name) ) => last'.res = "CatalogException(internal)"
           /\ ( /\ StepOf("AlterEntry", t, name) \/ StepOf("DropEntry", t, name)
                /\ last'.res = "CatalogException(internal)" ) =>
                  /\ PublishedNames = {}
                  /\ txn' = txn
                  /\ last'.calls = <<>>]_vars

\* a DropEntry of a default entry, which is internal, has been refused
RefusedDropOfInternal ==
    /\ last.op = "DropEntry"
    /\ last.res = "CatalogException(internal)"
    /\ last.calls = <<>>
    /\ entries[last.name] # NoNode
    /\ heap[GetEntryForTransaction(Cat, Tx(last.t), entries[last.name])].internal

(***************************************************************************)
(* Claims on the locks, checked in the lock-level specification.           *)
(***************************************************************************)
\* session t makes the step `kind` on `what`
Made(t, kind, what) == th'[t] # th[t] /\ last' = [t |-> t, kind |-> kind, what |-> what]

\* C24: in every CreateEntry that links its candidate into the directory,
\* the call DependencyManager.AddObject has been made before the candidate
\* is linked in, and it is made while the session holds neither the
\* catalog-wide write lock nor the set lock.
RegistrationPrecedesPublication ==
    [][\A t \in Txns :
           /\ Made(t, "call", "AddObject") => writeLock # t /\ catalog_lock # t
           /\ At(t, "CreateEntry_162") /\ Made(t, "write", "UpdateEntry")
                  => "AddObject" \in th[t].calls]_vars

\* C24, witness: a CreateEntry that has just linked its candidate in, with
\* both locks, after AddObject
PublishedAfterRegistration ==
    \E t \in Txns :
        /\ last = Did(t, Event("write", "UpdateEntry"))
        /\ At(t, "CreateEntry_169")
        /\ th[t].res = "true"
        /\ th[t].calls = {"AddObject"}
        /\ writeLock = t
        /\ catalog_lock = t

\* the calls into the DefaultGenerator
GeneratorCalls == {"CreateDefaultEntry", "GetDefaultEntries"}

\* session t calls the collaborator function `what` while it holds the set lock
CallsUnderSetLock(t, what) == Made(t, "call", what) /\ catalog_lock = t

\* C28 (as amended): at every call into the DependencyManager (AddObject,
\* AlterObject, DropObject, AddOwnership) and at every call of the
\* DefaultGenerator's CreateDefaultEntry the calling session does not hold
\* the set lock; the list of default names (GetDefaultEntries) is fetched
\* while the session holds it.
SetLockFreeAtCollaboratorCalls ==
    [][\A t \in Txns :
           /\ \A what \in DependencyManagerCalls \cup {"CreateDefaultEntry"} :
                  ~CallsUnderSetLock(t, what)
           /\ Made(t, "call", "GetDefaultEntries") => catalog_lock = t]_vars

\* C28 (as stated): at every call into the DependencyManager or into the
\* DefaultGenerator the calling session does not hold the set lock.
SetLockFreeAtEveryCollaboratorCall ==
    [][\A t \in Txns : \A what \in DependencyManagerCalls \cup GeneratorCalls :
           ~CallsUnderSetLock(t, what)]_vars

\* C28, witness: the generator is asked for a default entry by a session
\* that has released the set lock, while the other session holds it
GeneratorAskedInUnlockedWindow ==
    \E t \in Txns :
        /\ last = Did(t, Event("call", "CreateDefaultEntry"))
        /\ catalog_lock \notin {0, t}

\* session t makes a step of kind `kind` (a read or a write of the directory)
Accesses(t, kind) == th'[t] # th[t] /\ last'.t = t /\ last'.kind = kind

\* the operations that publish or remove versions
Writers == {"CreateEntry", "AlterEntry", "DropEntry", "Undo", "CleanupEntry"}

\* C29: every read and every mutation of the directory (lookup, insert,
\* replace-head, unlink, iteration) is made while the session holds the set
\* lock, and every mutation by CreateEntry, AlterEntry, DropEntry, Undo and
\* CleanupEntry additionally while it holds the catalog-wide write lock.
SetLockGuardsDirectory ==
    [][\A t \in Txns :
           /\ Accesses(t, "read") \/ Accesses(t, "write") => catalog_lock = t
           /\ Accesses(t, "write") /\ th[t].op \in Writers => writeLock = t]_vars

\* session t is inside a call
Busy(t) == th[t].pc # "idle"

\* C30: no session acquires the catalog-wide write lock while it holds the
\* set lock, also when it takes the locks again after an unlocked window;
\* and under fair scheduling every call that a session has started
\* completes or raises, whatever the other session does (no deadlock).
WriteLockFirstAndCallsComplete ==
    /\ [][\A t \in Txns : writeLock' = t /\ writeLock # t => catalog_lock # t]_vars
    /\ \A t \in Txns : Busy(t) ~> ~Busy(t)

\* C30, witness: a rename has taken the write lock again after its unlocked
\* window (line 275) and now needs the set lock, which a reader holds
RelockedWriteWhileReaderHoldsSet ==
    \E t \in Txns, u \in Txns :
        /\ t # u
        /\ At(t, "AlterEntry_276")
        /\ writeLock = t
        /\ catalog_lock = u
        /\ At(u, "GetEntry_493")

(***************************************************************************)
(* The scans.                                                              *)
(***************************************************************************)
\* the entries GetEntry yields the snapshot, over all names
FoundByGetEntry(transaction) == {GetEntryNow(transaction, name) : name \in Names} \ {NoNode}

\* C31: once the default entries are there, a Scan of a snapshot visits, for
\* every name for which GetEntry of the snapshot is not absent, the version
\* GetEntry returns and no other, and nothing for every other name: this
\* holds of what a Scan would visit in any state and of what every Scan
\* that has returned has visited.
ScanAgreesWithGetEntry ==
    /\ \A s \in Txns :
           (Active(s) /\ ~DefaultsPending) => ScanVisits(Cat, Tx(s)) = FoundByGetEntry(Tx(s))
    /\ (last.op = "Scan" /\ last.res = "ok") =>
           /\ ~DefaultsPending
           /\ last.visited = FoundByGetEntry(Tx(last.t))
           /\ \A e1 \in last.visited, e2 \in last.visited :
                  heap[e1].name = heap[e2].name => e1 = e2

\* C31, witness: a Scan has visited a version beneath the head of one chain
\* (the head is another transaction's) and has passed over another chain
ScanVisitedOlderVersion ==
    /\ last.op = "Scan" /\ last.res = "ok"
    /\ \E e \in last.visited : entries[heap[e].name] # e
    /\ \E name \in Names :
           entries[name] # NoNode /\ \A e \in last.visited : heap[e].name # name

\* the newest version of the chain of `name` that has a committed timestamp
\* (NoNode: the chain has none)
NewestCommitted(name) ==
    LET chain == Chain(name)
        at == {i \in 1..Len(chain) : IsCommitted(heap[chain[i]].timestamp)}
    IN IF at = {} THEN NoNode ELSE chain[CHOOSE i \in at : \A j \in at : i <= j]

\* C32: the scan that is given no transaction sees committed state only: for
\* each chain it visits the newest version with a committed timestamp if
\* that version is no tombstone and nothing otherwise, so it never visits a
\* version with the timestamp of a running transaction, and a drop that is
\* not committed does not hide the committed version beneath it.
UntransactedScanSeesCommitted ==
    last.op = "ScanCommitted" =>
        /\ last.visited =
               {e \in NodeIds : \E name \in Names : e = NewestCommitted(name) /\ ~heap[e].deleted}
        /\ \A e \in last.visited : ~IsLocal(heap[e].timestamp)
        /\ \A name \in Names :
               LET head == entries[name] IN
               (/\ head # NoNode
                /\ IsLocal(heap[head].timestamp) /\ heap[head].deleted
                /\ heap[head].child # NoNode
                /\ IsCommitted(heap[heap[head].child].timestamp)
                /\ ~heap[heap[head].child].deleted)
                   => heap[head].child \in last.visited

\* C32, witness: the scan has visited the committed version beneath a drop
\* that is not committed, and has passed over a chain whose only live
\* version is not committed
UntransactedScanBeneathDrop ==
    /\ last.op = "ScanCommitted"
    /\ \E e \in last.visited :
           /\ entries[heap[e].name] # e
           /\ heap[entries[heap[e].name]].deleted
           /\ IsLocal(heap[entries[heap[e].name]].timestamp)
    /\ \E name \in Names :
           /\ entries[name] # NoNode
           /\ ~heap[entries[name]].deleted
           /\ IsLocal(heap[entries[name]].timestamp)
           /\ \A e \in last.visited : heap[e].name # name

\* C33: SimilarEntry considers live names only: the name it returns is a
\* name for which GetEntry of the caller's snapshot is not absent, so it is
\* never a name whose visible version is a tombstone nor a name that only
\* another transaction, which has not committed, has created.
SimilarEntryReturnsLiveName ==
    (last.op = "SimilarEntry" /\ last.res = "ok" /\ last.similar # "") =>
        GetEntryNow(Tx(last.t), last.similar) # NoNode

====
